---- MODULE Spec2Model ----
(***************************************************************************)
(* A model of bmon's ingestion and cross-host correlation pipeline:        *)
(*   - the hub's MempoolAcceptAggregator (bmon/mempool.py) and the hub     *)
(*     tasks that drive it (bmon/server_tasks.py);                         *)
(*   - the edge's listener chain and Reorg reducer (bmon/logparse.py);     *)
(*   - the edge's line router, log cursor and log follower                 *)
(*     (bmon/bitcoind_tasks.py, bmon/logparse.py).                         *)
(* Redis key families are functions whose DOMAIN is the set of live keys.  *)
(***************************************************************************)
EXTENDS Integers, Sequences, FiniteSets, TLC

VARIABLES
    now,        \* wall clock of the hub, in seconds (timezone.now().timestamp())
    ticks,      \* how often the clock has been advanced
    redisdb,    \* server_tasks.redisdb: the hub's fast store
    mempool_q,  \* server_tasks.mempool_q: pending process_completed_propagations tasks
    last,       \* the last call made on the hub and what it returned
    writes,     \* history: how often mpa:prop_event:<txid> was written, per txid
    marked,     \* history: the (host, txid) pairs a mark_seen call has recorded
    completed,  \* history: txids for which the hub observed CompleteAll
    perm,       \* the two runs of one multiset of mark_seen calls (SpecPerm)
    listeners,  \* the state of the stateful listeners of LOG_LISTENERS
    chain,      \* the daemon's active chain: block hashes by height, from 0
    episode,    \* the daemon's reorganisation in progress, if any
    line,       \* the log line the daemon wrote last
    reorgs,     \* history: the ReorgEvents the listener returned
    episodes,   \* history: the reorganisations the daemon completed
    logfile,    \* the daemon's debug.log: the lines written so far
    edge,       \* the edge process: lines read, restarts, and cursor history
    logpos,     \* the edge fast store's logpos.<host> key (LogfilePosManager)
    LogProgress,    \* the Store's LogProgress row of the host
    events_q,   \* bitcoind_tasks.events_q: pending tasks
    bitcoind_mempool_q, \* bitcoind_tasks.mempool_q: pending mempool_activity tasks
    peer_id_map,    \* the edge fast store's peer_id_map hash
    Peer,       \* the Store's Peer rows of the host: daemon peer number to id
    errors,     \* the Store's ProcessLineError rows
    run,        \* history: the last process_line call
    server_q,   \* server_tasks.server_q: pending persist_bitcoind_event tasks
    persisted,  \* the Store's event rows, each with the hash of its line
    tail,       \* read_logfile_forever: the log path, the open file, the lines yielded
    rpc,        \* bitcoin.api: the daemons that answer, the cached RPC objects, the last gather_rpc
    parsed,     \* history: the lines a listener was handed and what it did with each
    marking,    \* the hub's workers inside mark_seen, and the mpa:<txid> lock
    ship        \* the edge's mempool_q workers, the rolling mempool file and its shipping


-----------------------------------------------------------------------------
(* Bounds of the model.                                                    *)

\* number of times the clock is advanced
MaxTicks == 2
\* cap on the number of recorded (non-duplicate) mark_seen calls
MaxMarks == 4
\* the same cap where the clock advances (SpecTime)
MaxTimedMarks == 2
\* seen_at values offered to mark_seen are StartTime .. StartTime + MaxSeenSkew
MaxSeenSkew == 1
\* number of mark_seen calls in a permuted multiset
MaxPermCalls == 3
\* number of times the clock is advanced within one run of the multiset
MaxPermTicks == 1
\* the history counter of event-key writes saturates here
MaxWrites == 2
\* number of blocks the daemon mines (block hashes are 1 .. MaxBlocks)
MaxBlocks == 8
\* depth of a reorganisation
MaxDepth == 3
\* number of lines the daemon writes to debug.log
MaxLogLines == 3
\* number of lines the daemon writes for process_line alone
MaxRouterLines == 2
\* number of times the edge's clock is advanced
MaxEdgeTicks == 1
\* number of restarts of the edge process
MaxRestarts == 1

\* number of recorded mark_seen calls while the reaper runs (SpecLive)
MaxLiveMarks == 2

\* number of lines the daemon writes while peers are resolved (SpecPeer)
MaxPeerLines == 2

\* characters, newlines included, the daemon writes to its log files
MaxFileLen == 5

\* characters one read of the follower returns (the code asks for 1024)
MaxChunk == 2

\* number of times the log file is rotated
MaxRotations == 1

\* number of times a daemon goes down or comes back up
MaxFlips == 3

\* number of lines handed to the ConnectBlockListener
MaxConnectLines == 6

\* number of lines handed to the HeaderToTipListener
MaxHeaderLines == 5

\* number of block lines handed to the ReorgListener alone
MaxBlockLines == 4

\* number of mempool_activity tasks put on the edge's mempool_q
MaxActivity == 3

\* number of times two hours pass on the edge while mempool activity is shipped
MaxShipTicks == 2

-----------------------------------------------------------------------------
(* Generic helpers for key/value maps.                                     *)

Put(f, k, v) == [y \in (DOMAIN f) \cup {k} |-> IF y = k THEN v ELSE f[y]]

Del(f, ks) == [y \in (DOMAIN f) \ ks |-> f[y]]

Has(f, k) == k \in DOMAIN f

Range(q) == {q[i] : i \in DOMAIN q}

-----------------------------------------------------------------------------
(* MempoolAcceptAggregator: configuration.                                 *)

KEY_LIFETIME_SECS == 4 * 60 * 60

OBSERVATION_WINDOW_SECS == 60 * 60

EVENT_EXPIRY_SECS == (60 * 60) + (60 * 5)

\* the aggregator of test_mempool.py, reduced to three hosts in two cohorts
host_to_cohort == [a |-> "segwit", b |-> "segwit", c |-> "taproot"]

host_names == DOMAIN host_to_cohort

cohorts == {host_to_cohort[h] : h \in host_names}

hosts_for_cohort(co) == {h \in host_names : host_to_cohort[h] = co}

cohort(host) == hosts_for_cohort(host_to_cohort[host])

Txids == {"t1", "t2"}

OneTxid == {"t1"}

\* redis orders sorted-set members of equal score lexicographically
TxidRank == [t1 |-> 1, t2 |-> 2]

\* the clock starts well after the epoch, as wall clocks do
StartTime == 2 * OBSERVATION_WINDOW_SECS

SeenAts == StartTime .. (StartTime + MaxSeenSkew)

EVENT_INDEX_MEMBER(txid) == "mpa:prop_event:" \o txid

CompleteAll == "complete_all"

CompleteCohort == "complete_cohort"

None == "None"

\* an optional numeric argument is << >> (None) or <<n>>
NoArg == << >>

\* the methods class MempoolAcceptAggregator defines
AggregatorMethods ==
    {"cohort", "cohorts", "hosts_for_cohort", "host_names",
     "get_total_txids_processed", "get_total_txids_processed_per_host",
     "get_txid_lock", "mark_seen", "get_txid_debug_log", "process_all_aged",
     "finalize_propagation", "get_propagation_event_keys",
     "get_propagation_events"}

EmptyRedis ==
    [ts |-> << >>,              \* mpa:<txid>:<host>  -> [val, exp]
     txids |-> << >>,           \* mpa:txids          : member -> score
     total |-> 0,               \* mpa:total_txids
     total_host |-> << >>,      \* mpa:total_txids:<host>
     prop_event |-> << >>,      \* mpa:prop_event:<txid> -> [val, exp]
     prop_event_set |-> << >>,  \* mpa:prop_event_set : member -> score
     log |-> << >>]             \* mpa:log:<txid>     -> [len, exp]

\* keys whose TTL has run out at time n are gone
Expire(r, n) ==
    [r EXCEPT
        !.ts = Del(r.ts, {k \in DOMAIN r.ts : r.ts[k].exp <= n}),
        !.prop_event = Del(r.prop_event,
                           {k \in DOMAIN r.prop_event : r.prop_event[k].exp <= n}),
        !.log = Del(r.log, {k \in DOMAIN r.log : r.log[k].exp <= n})]

\* redis.mget over mpa:<txid>:<host> for every configured host
hosts_seen(r, txid) == {h \in host_names : Has(r.ts, <<txid, h>>)}

incr(f, k) == Put(f, k, (IF Has(f, k) THEN f[k] ELSE 0) + 1)

-----------------------------------------------------------------------------
(* MempoolAcceptAggregator.mark_seen                                       *)

\* mutant: the cohort is tested before the full host set
mark_seen_status_cohort_first(r, host, txid) ==
    IF cohort(host) \ hosts_seen(r, txid) = {} THEN CompleteCohort
    ELSE IF hosts_seen(r, txid) = host_names THEN CompleteAll
    ELSE None

mark_seen_status(r, host, txid) ==
    IF hosts_seen(r, txid) = host_names THEN CompleteAll
    ELSE IF cohort(host) \ hosts_seen(r, txid) = {} THEN CompleteCohort
    ELSE None

\* the member name mark_seen looks up in mpa:prop_event_set
mark_seen_index_member(txid) == txid

\* mutant: the arrival time is stored instead of the observation time
mark_seen_value_arrival(seen_at, t) == t

\* the value written under mpa:<txid>:<host>: seen_at.timestamp()
mark_seen_value(seen_at, t) == seen_at

mark_seen(r, host, txid, seen_at, t) ==
    IF Has(r.ts, <<txid, host>>)
    THEN [redis |-> r, ret |-> None, raised |-> FALSE, dup |-> TRUE]
    ELSE
        LET r1 == [r EXCEPT
                     !.log = Put(r.log, txid,
                                 IF Has(r.log, txid)
                                 THEN [r.log[txid] EXCEPT !.len = @ + 1]
                                 ELSE [len |-> 1, exp |-> t + (60 * 60 * 4)]),
                     !.ts = Put(r.ts, <<txid, host>>,
                                [val |-> mark_seen_value(seen_at, t),
                                 exp |-> t + KEY_LIFETIME_SECS])]
            added == ~Has(r1.txids, txid)
            r2 == [r1 EXCEPT !.txids = Put(r1.txids, txid, t)]
        IN  IF added /\ Has(r2.prop_event_set, mark_seen_index_member(txid))
            THEN [redis |-> r2, ret |-> None, raised |-> TRUE, dup |-> FALSE]
            ELSE
                LET r3 == [r2 EXCEPT
                             !.total = IF added THEN @ + 1 ELSE @,
                             !.total_host = incr(@, host)]
                IN  [redis |-> r3, ret |-> mark_seen_status(r3, host, txid),
                     raised |-> FALSE, dup |-> FALSE]

-----------------------------------------------------------------------------
(* MempoolAcceptAggregator.finalize_propagation                            *)

\* the member name finalize_propagation looks up in mpa:prop_event_set
finalize_index_member(txid) == txid

\* mutant: a cohort counts as complete once any of its hosts has seen the txid
finalize_cohorts_complete_any(saw) ==
    {co \in cohorts : hosts_for_cohort(co) \cap saw # {}}

finalize_cohorts_complete(saw) ==
    {co \in cohorts : hosts_for_cohort(co) \ saw = {}}

\* mutant: complete as soon as one host has seen the txid
finalize_all_complete_any(saw) == saw # {}

\* all_complete = hosts_that_saw == self.host_names
finalize_all_complete(saw) == saw = host_names

TxPropagation(r, txid, t) ==
    LET saw == hosts_seen(r, txid)
    IN  [txid |-> txid,
         host_to_timestamp |-> [h \in saw |-> r.ts[<<txid, h>>].val],
         cohorts_complete |-> finalize_cohorts_complete(saw),
         all_complete |-> finalize_all_complete(saw),
         time_window |-> t - r.txids[txid]]

NoEvent == << >>

\* TxPropagation.earliest_saw: min(host_to_timestamp.values())
earliest_saw(e) ==
    CHOOSE v \in {e.host_to_timestamp[h] : h \in DOMAIN e.host_to_timestamp} :
        \A h \in DOMAIN e.host_to_timestamp : v <= e.host_to_timestamp[h]

\* TxPropagation.latest_saw: max(host_to_timestamp.values())
latest_saw(e) ==
    CHOOSE v \in {e.host_to_timestamp[h] : h \in DOMAIN e.host_to_timestamp} :
        \A h \in DOMAIN e.host_to_timestamp : v >= e.host_to_timestamp[h]

\* mutant: the difference is taken the other way round
spread_reversed(e) == earliest_saw(e) - latest_saw(e)

\* TxPropagation.spread
spread(e) == latest_saw(e) - earliest_saw(e)

\* mutant: a txid without live raw observations stays in mpa:txids
finalize_no_timestamps_keep(r, txid) == r

\* "if not host_to_timestamp": the txid is dropped from mpa:txids
finalize_no_timestamps(r, txid) == [r EXCEPT !.txids = Del(@, {txid})]

\* mutant: an incomplete propagation is finalized all the same
finalize_refuses_never(assert_complete, all_complete) == FALSE

\* "if assert_complete: if not all_complete": log and return None
finalize_refuses(assert_complete, all_complete) == assert_complete /\ ~all_complete

\* mutant: the debug log of the txid is left behind
finalize_cleanup_keep_log(r, txid) ==
    [r EXCEPT !.txids = Del(@, {txid}),
              !.ts = Del(@, {<<txid, h>> : h \in host_names})]

\* the zrem of the mpa:txids entry and the delete of the raw keys and the log
finalize_cleanup(r, txid) ==
    [r EXCEPT !.txids = Del(@, {txid}),
              !.ts = Del(@, {<<txid, h>> : h \in host_names}),
              !.log = Del(@, {txid})]

finalize_propagation(r, txid, assert_complete, t) ==
    IF Has(r.prop_event_set, finalize_index_member(txid))
    THEN [redis |-> r, event |-> NoEvent, raised |-> TRUE, wrote |-> FALSE]
    ELSE IF ~Has(r.txids, txid) \/ r.txids[txid] = 0
    THEN [redis |-> r, event |-> NoEvent, raised |-> FALSE, wrote |-> FALSE]
    ELSE IF hosts_seen(r, txid) = {}
    THEN [redis |-> finalize_no_timestamps(r, txid),
          event |-> NoEvent, raised |-> FALSE, wrote |-> FALSE]
    ELSE IF finalize_refuses(assert_complete, hosts_seen(r, txid) = host_names)
    THEN [redis |-> r, event |-> NoEvent, raised |-> FALSE, wrote |-> FALSE]
    ELSE
        LET event == TxPropagation(r, txid, t)
            r1 == [r EXCEPT !.prop_event =
                     Put(@, txid, [val |-> event, exp |-> t + EVENT_EXPIRY_SECS])]
            member == EVENT_INDEX_MEMBER(txid)
            added == ~Has(r1.prop_event_set, member)
            r2 == [r1 EXCEPT !.prop_event_set = Put(@, member, t)]
        IN  IF ~added
            THEN [redis |-> r2, event |-> NoEvent, raised |-> FALSE, wrote |-> TRUE]
            ELSE [redis |-> finalize_cleanup(r2, txid),
                  event |-> <<event>>, raised |-> FALSE, wrote |-> TRUE]

-----------------------------------------------------------------------------
(* MempoolAcceptAggregator.process_all_aged                                *)

\* redis.zrange(key, "-inf", max, byscore=True): ascending (score, member)
RECURSIVE zrange_byscore(_, _)
zrange_byscore(zset, max) ==
    LET S == {m \in DOMAIN zset : zset[m] <= max}
    IN  IF S = {} THEN << >>
        ELSE LET first == CHOOSE m \in S : \A o \in S :
                            \/ zset[m] < zset[o]
                            \/ zset[m] = zset[o] /\ TxidRank[m] <= TxidRank[o]
             IN  <<first>> \o zrange_byscore(Del(zset, {first}), max)

process_all_aged_cutoff(min_age, latest_time_allowed, t) ==
    IF latest_time_allowed # NoArg THEN latest_time_allowed[1]
    ELSE t - (IF min_age # NoArg THEN min_age[1] ELSE OBSERVATION_WINDOW_SECS)

\* the loop over old_enough_txids; acc carries the store, the events and,
\* for the history, the txids whose event key was written
RECURSIVE process_all_aged_loop(_, _, _)
process_all_aged_loop(acc, old_enough_txids, t) ==
    IF old_enough_txids = << >> THEN acc
    ELSE LET txid == Head(old_enough_txids)
             f == finalize_propagation(acc.redis, txid, FALSE, t)
         IN  process_all_aged_loop(
                 [redis |-> f.redis,
                  events |-> IF f.raised THEN acc.events ELSE acc.events \o f.event,
                  wrote |-> IF f.wrote THEN acc.wrote \cup {txid} ELSE acc.wrote],
                 Tail(old_enough_txids), t)

process_all_aged(r, min_age, latest_time_allowed, t) ==
    process_all_aged_loop(
        [redis |-> r, events |-> << >>, wrote |-> {}],
        zrange_byscore(r.txids,
                       process_all_aged_cutoff(min_age, latest_time_allowed, t)),
        t)

-----------------------------------------------------------------------------
(* The hub: calls on the aggregator, its task queue and its clock.         *)

\* op: the call; host, txid, seen_at, flag: its arguments (flag is
\* assert_complete); cutoff: process_all_aged's latest_time_allowed;
\* ret: what mark_seen returned, or "raised"; events: the records returned
NoCall ==
    [op |-> "init", host |-> None, txid |-> None, seen_at |-> 0, flag |-> FALSE,
     cutoff |-> 0, ret |-> None, events |-> << >>]

Raised == "raised"

Counter(f, k) == IF Has(f, k) THEN f[k] ELSE 0

\* the recorded mark_seen calls so far: the sum of mpa:total_txids:<host>
RECURSIVE Sum(_, _)
Sum(f, S) == IF S = {} THEN 0
             ELSE LET k == CHOOSE x \in S : TRUE IN f[k] + Sum(f, S \ {k})

CanMark(limit) == Sum(redisdb.total_host, DOMAIN redisdb.total_host) < limit

Bump(w, S) == [t \in Txids |-> IF t \in S /\ w[t] < MaxWrites THEN w[t] + 1 ELSE w[t]]

HubInit ==
    /\ now = StartTime
    /\ ticks = 0
    /\ redisdb = EmptyRedis
    /\ mempool_q = << >>
    /\ last = NoCall
    /\ writes = [t \in Txids |-> 0]
    /\ marked = {}
    /\ completed = {}

\* server_tasks.process_mempool_accept(txid, seen_at, host)
ProcessMempoolAccept(txid, seen_at, host) ==
    /\ LET m == mark_seen(redisdb, host, txid, seen_at, now)
           all == ~m.raised /\ m.ret = CompleteAll
       IN  /\ redisdb' = m.redis
           /\ last' = [NoCall EXCEPT !.op = "process_mempool_accept",
                         !.host = host, !.txid = txid, !.seen_at = seen_at,
                         !.ret = IF m.raised THEN Raised ELSE m.ret]
           /\ marked' = IF m.dup THEN marked ELSE marked \cup {<<host, txid>>}
           /\ mempool_q' = IF all THEN Append(mempool_q, txid) ELSE mempool_q
           /\ completed' = IF all THEN completed \cup {txid} ELSE completed
    /\ UNCHANGED <<now, ticks, writes>>

\* server_tasks.process_completed_propagations(txid), run by a queue worker:
\* it calls agg.process_completed_propagations, which raises AttributeError
\* unless the aggregator class defines a method of that name
ProcessCompletedPropagations ==
    /\ mempool_q # << >>
    /\ mempool_q' = Tail(mempool_q)
    /\ last' = [NoCall EXCEPT !.op = "process_completed_propagations",
                  !.txid = Head(mempool_q),
                  !.ret = IF "process_completed_propagations" \in AggregatorMethods
                          THEN None ELSE Raised]
    /\ UNCHANGED <<now, ticks, redisdb, writes, marked, completed>>

\* agg.finalize_propagation(txid, assert_complete), called directly
FinalizePropagation(txid, assert_complete) ==
    /\ LET f == finalize_propagation(redisdb, txid, assert_complete, now)
       IN  /\ redisdb' = f.redis
           /\ last' = [NoCall EXCEPT !.op = "finalize_propagation", !.txid = txid,
                         !.flag = assert_complete, !.events = f.event,
                         !.ret = IF f.raised THEN Raised ELSE None]
           /\ writes' = Bump(writes, IF f.wrote THEN {txid} ELSE {})
    /\ UNCHANGED <<now, ticks, mempool_q, marked, completed>>

\* agg.process_all_aged(min_age, latest_time_allowed); also the body of the
\* periodic task server_tasks.process_aged_propagations (no arguments)
ProcessAllAged(min_age, latest_time_allowed) ==
    /\ LET p == process_all_aged(redisdb, min_age, latest_time_allowed, now)
       IN  /\ redisdb' = p.redis
           /\ last' = [NoCall EXCEPT !.op = "process_all_aged",
                         !.cutoff = process_all_aged_cutoff(
                                        min_age, latest_time_allowed, now),
                         !.events = p.events]
           /\ writes' = Bump(writes, p.wrote)
    /\ UNCHANGED <<now, ticks, mempool_q, marked, completed>>

\* time passes, half the lifetime of a raw observation at a time
TickSteps == {KEY_LIFETIME_SECS \div 2}

CanTick(d) == ticks < MaxTicks

Tick(d) ==
    /\ CanTick(d)
    /\ now' = now + d
    /\ ticks' = ticks + 1
    /\ redisdb' = Expire(redisdb, now + d)
    /\ last' = [NoCall EXCEPT !.op = "tick"]
    /\ UNCHANGED <<mempool_q, writes, marked, completed>>

\* time passes for as long as some txid of mpa:txids is not yet both old
\* enough for the reaper and past the lifetime of its raw observations
LiveTickSteps == {KEY_LIFETIME_SECS \div 2}

LiveTick(d) ==
    /\ \E t \in DOMAIN redisdb.txids :
           now < redisdb.txids[t] + KEY_LIFETIME_SECS + OBSERVATION_WINDOW_SECS
    /\ now' = now + d
    /\ redisdb' = Expire(redisdb, now + d)
    /\ last' = [NoCall EXCEPT !.op = "tick"]
    /\ UNCHANGED <<ticks, mempool_q, writes, marked, completed>>

-----------------------------------------------------------------------------
(* Two runs of one multiset of mark_seen calls on a fresh aggregator, each *)
(* followed by finalize_propagation: run A in the order given, run B in a  *)
(* permutation of it.                                                      *)

PermTxid == "t1"

PermCalls == [host : host_names, seen_at : SeenAts]

Bijections(n) == {p \in [1..n -> 1..n] : \A i, j \in 1..n : p[i] = p[j] => i = j}

PermIdle ==
    [calls |-> << >>, order |-> << >>, todo |-> << >>, run |-> "idle",
     recA |-> NoEvent, recB |-> NoEvent, expired |-> FALSE]

HostRank == [a |-> 1, b |-> 2, c |-> 3]

CallRank(call) == (HostRank[call.host] * (MaxSeenSkew + 1)) + (call.seen_at - StartTime)

\* one representative sequence per multiset: the calls in ascending rank
Multisets(n) ==
    {cs \in [1..n -> PermCalls] :
        \A i, j \in 1..n : i < j => CallRank(cs[i]) <= CallRank(cs[j])}

PermStarts ==
    UNION {
        {[PermIdle EXCEPT !.calls = cs, !.todo = cs, !.run = "A",
                          !.order = [i \in 1..n |-> cs[p[i]]]] :
            cs \in Multisets(n), p \in Bijections(n)} :
        n \in 0..MaxPermCalls}

PermMark ==
    /\ perm.run \in {"A", "B"}
    /\ perm.todo # << >>
    /\ LET call == Head(perm.todo)
           m == mark_seen(redisdb, call.host, PermTxid, call.seen_at, now)
       IN  /\ redisdb' = m.redis
           /\ last' = [NoCall EXCEPT !.op = "mark_seen", !.host = call.host,
                         !.txid = PermTxid, !.seen_at = call.seen_at,
                         !.ret = IF m.raised THEN Raised ELSE m.ret]
    /\ perm' = [perm EXCEPT !.todo = Tail(@)]
    /\ UNCHANGED <<now, ticks, mempool_q, writes, marked, completed>>

PermFinalize ==
    /\ perm.run \in {"A", "B"}
    /\ perm.todo = << >>
    /\ LET f == finalize_propagation(redisdb, PermTxid, FALSE, now)
       IN  /\ last' = [NoCall EXCEPT !.op = "finalize_propagation",
                         !.txid = PermTxid, !.events = f.event,
                         !.ret = IF f.raised THEN Raised ELSE None]
           /\ IF perm.run = "A"
              THEN /\ perm' = [perm EXCEPT !.recA = f.event, !.run = "B",
                                           !.todo = perm.order]
                   /\ redisdb' = EmptyRedis
                   /\ now' = StartTime
                   /\ ticks' = 0
              ELSE /\ perm' = [perm EXCEPT !.recB = f.event, !.run = "done"]
                   /\ redisdb' = f.redis
                   /\ UNCHANGED <<now, ticks>>
    /\ UNCHANGED <<mempool_q, writes, marked, completed>>

PermTick(d) ==
    /\ perm.run \in {"A", "B"}
    /\ ticks < MaxPermTicks
    /\ now' = now + d
    /\ ticks' = ticks + 1
    /\ redisdb' = Expire(redisdb, now + d)
    /\ perm' = [perm EXCEPT !.expired = @ \/ Expire(redisdb, now + d).ts # redisdb.ts]
    /\ last' = [NoCall EXCEPT !.op = "tick"]
    /\ UNCHANGED <<mempool_q, writes, marked, completed>>

-----------------------------------------------------------------------------
(* Log lines.  A line is what the listeners' substring tests and patterns  *)
(* can tell about it: the marker it carries (kind), whether it is one of   *)
(* the " Enqueuing " duplicates, its timestamp and its fields: height=,    *)
(* the block hash, peer= (a sequence, empty when the line has none), the   *)
(* transaction hash and the label of a "- <label>: <float>ms" timing line. *)
(* clean tells whether the model instance made from the line validates.    *)

NoLine ==
    [kind |-> "none", enq |-> FALSE, ts |-> 0, height |-> 0, blockhash |-> 0,
     peer |-> << >>, txhash |-> "", label |-> "", clean |-> TRUE]

BlockLine(kind, enq, ts, height, blockhash) ==
    [NoLine EXCEPT !.kind = kind, !.enq = enq, !.ts = ts, !.height = height,
                   !.blockhash = blockhash]

-----------------------------------------------------------------------------
(* logparse._BlockEventListener and logparse.ReorgListener                 *)

\* a listener that takes the " Enqueuing " duplicates for block events
BlockEventListener_process_line_enqueuing(event_type, l) ==
    IF l.kind = event_type
    THEN <<[type |-> event_type, timestamp |-> l.ts, height |-> l.height,
            blockhash |-> l.blockhash]>>
    ELSE << >>

\* _BlockEventListener.process_line for the listener of the given event_type
BlockEventListener_process_line(event_type, l) ==
    IF l.kind = event_type /\ ~l.enq
    THEN <<[type |-> event_type, timestamp |-> l.ts, height |-> l.height,
            blockhash |-> l.blockhash]>>
    ELSE << >>

NewReorgListener == [disconnects |-> << >>, replacements |-> << >>]

Hashes(events) == [i \in DOMAIN events |-> events[i].blockhash]

ReorgEvent(disconnects, replacements, max_height) ==
    [type |-> "ReorgEvent",
     finished_timestamp |-> replacements[Len(replacements)].timestamp,
     min_height |-> disconnects[1].height,
     max_height |-> max_height,
     old_blockhashes |-> Hashes(disconnects),
     new_blockhashes |-> Hashes(replacements)]

\* mutant: a regular connection is remembered as a replacement
ReorgListener_regular_connection_kept(st, got) ==
    [st EXCEPT !.replacements = Append(@, got)]

\* "if not self.disconnects: return None": a regular connection event
ReorgListener_regular_connection(st, got) == st

\* ReorgListener.process_line: the listener's next state, what it returns
\* (<< >> for None) and whether it raised
ReorgListener_process_line(st, l) ==
    LET d == BlockEventListener_process_line("BlockDisconnected", l)
        got == IF d # << >> THEN d
               ELSE BlockEventListener_process_line("BlockConnected", l)
        quiet == [st |-> st, ret |-> << >>, raised |-> FALSE]
    IN  IF got = << >> THEN quiet
        ELSE IF got[1].type = "BlockDisconnected"
        THEN [quiet EXCEPT !.st.disconnects = got \o st.disconnects]
        ELSE IF st.disconnects = << >>
        THEN [quiet EXCEPT !.st = ReorgListener_regular_connection(st, got[1])]
        ELSE
            LET max_height == st.disconnects[Len(st.disconnects)].height
                replacements ==
                    IF got[1].height <= max_height
                    THEN Append(st.replacements, got[1])
                    ELSE st.replacements
            IN  IF got[1].height < max_height
                THEN [quiet EXCEPT !.st.replacements = replacements]
                ELSE IF replacements = << >>
                THEN [quiet EXCEPT !.raised = TRUE]
                ELSE [st |-> NewReorgListener,
                      ret |-> <<ReorgEvent(st.disconnects, replacements, max_height)>>,
                      raised |-> FALSE]

-----------------------------------------------------------------------------
(* The other listeners of logparse.py.  Each process_line gives the        *)
(* listener's next state, what it returns (<< >> for None) and whether it  *)
(* raised.                                                                 *)

\* bitcoind_tasks.ignore_older_than outside DEBUG, and the PongListener's
IGNORE_OLDER_THAN == 6 * 60 * 60

PONG_IGNORE_OLDER_THAN == 10 * 60

Quiet(st) == [st |-> st, ret |-> << >>, raised |-> FALSE]

Raise(st) == [st |-> st, ret |-> << >>, raised |-> TRUE]

Return(st, got) == [st |-> st, ret |-> <<got>>, raised |-> FALSE]

MempoolAcceptListener_process_line(l, t) ==
    IF l.kind # "Accept" THEN Quiet(<< >>)
    ELSE IF t - l.ts > IGNORE_OLDER_THAN THEN Quiet(<< >>)
    ELSE IF l.peer = << >> THEN Raise(<< >>)
    ELSE Return(<< >>, [type |-> "MempoolAccept", timestamp |-> l.ts,
                        peer_num |-> l.peer[1], txhash |-> l.txhash])

MempoolRejectListener_process_line(l, t) ==
    IF l.kind # "Reject" THEN Quiet(<< >>)
    ELSE IF t - l.ts > IGNORE_OLDER_THAN THEN Quiet(<< >>)
    ELSE IF l.peer = << >> THEN Raise(<< >>)
    ELSE Return(<< >>, [type |-> "MempoolReject", timestamp |-> l.ts,
                        peer_num |-> l.peer[1], txhash |-> l.txhash])

PongListener_process_line(l, t) ==
    IF l.kind # "Pong" THEN Quiet(<< >>)
    ELSE IF t - l.ts > PONG_IGNORE_OLDER_THAN THEN Quiet(<< >>)
    ELSE IF l.peer = << >> THEN Quiet(<< >>)
    ELSE Return(<< >>, [type |-> "int", peer_num |-> l.peer[1]])

BlockDownloadTimeoutListener_process_line(l) ==
    IF l.kind # "Timeout" THEN Quiet(<< >>)
    ELSE IF l.peer = << >> THEN Raise(<< >>)
    ELSE Return(<< >>, [type |-> "BlockDownloadTimeout", timestamp |-> l.ts,
                        peer_num |-> l.peer[1], blockhash |-> l.blockhash])

NewConnectBlockListener ==
    [next_details |-> << >>, current_height |-> << >>, current_blockhash |-> << >>]

\* the label of the terminal "- Connect block:" line
CONNECTBLOCK_TOTAL == "connectblock_total_time_ms"

\* the timing of a line is identified by the line's timestamp
ConnectBlockListener_process_line(st, l) ==
    IF l.kind = "UpdateTip"
    THEN Return([st EXCEPT !.current_height = <<l.height>>,
                           !.current_blockhash = <<l.blockhash>>],
                [type |-> "ConnectBlockEvent", timestamp |-> l.ts,
                 blockhash |-> l.blockhash, height |-> l.height])
    ELSE IF l.kind # "Detail" THEN Quiet(st)
    ELSE
        LET next_details == Put(st.next_details, l.label, l.ts)
            accumulated == [st EXCEPT !.next_details = next_details]
        IN  IF ~Has(next_details, CONNECTBLOCK_TOTAL) THEN Quiet(accumulated)
            ELSE IF st.current_blockhash = << >> \/ st.current_height = << >>
            THEN Raise(accumulated)
            ELSE Return(NewConnectBlockListener,
                        [type |-> "ConnectBlockDetails", timestamp |-> l.ts,
                         blockhash |-> st.current_blockhash[1],
                         height |-> st.current_height[1],
                         details |-> next_details])

\* mutant: a measurement in progress is not interrupted
HeaderToTip_interrupt_keep(pending, fresh) == IF pending # << >> THEN pending ELSE fresh

\* "Saw new header": self.next_event is set to a new HeaderToTipEvent, whether
\* or not one is pending
HeaderToTip_interrupt(pending, fresh) == fresh

\* mutant: the emitted event stays pending
HeaderToTip_emitted_keep(next_event) == next_event

\* self.next_event = None once the event is handed out
HeaderToTip_emitted(next_event) == << >>

HeaderToTipListener_process_line(st, l) ==
    LET next_event ==
            IF l.kind = "SawHeader"
            THEN HeaderToTip_interrupt(
                     st, <<[blockhash |-> l.blockhash, height |-> l.height,
                            saw_header_at |-> l.ts, reconstruct_block_at |-> << >>]>>)
            ELSE st
    IN  IF next_event = << >> THEN Quiet(next_event)
        ELSE IF l.kind = "Reconstructed"
        THEN IF next_event[1].blockhash # l.blockhash THEN Quiet(next_event)
             ELSE Quiet(<<[next_event[1] EXCEPT !.reconstruct_block_at = <<l.ts>>]>>)
        ELSE IF l.kind = "UpdateTip"
        THEN IF next_event[1].blockhash # l.blockhash THEN Quiet(next_event)
             ELSE Return(HeaderToTip_emitted(next_event),
                         [type |-> "HeaderToTipEvent",
                          blockhash |-> next_event[1].blockhash,
                          height |-> next_event[1].height,
                          saw_header_at |-> next_event[1].saw_header_at,
                          reconstruct_block_at |-> next_event[1].reconstruct_block_at,
                          tip_at |-> l.ts,
                          header_to_tip_secs |-> l.ts - next_event[1].saw_header_at])
        ELSE Quiet(next_event)

BlockConnectedListener_process_line(l) ==
    [st |-> << >>, ret |-> BlockEventListener_process_line("BlockConnected", l),
     raised |-> FALSE]

BlockDisconnectedListener_process_line(l) ==
    [st |-> << >>, ret |-> BlockEventListener_process_line("BlockDisconnected", l),
     raised |-> FALSE]

-----------------------------------------------------------------------------
(* bitcoind_tasks: the listener chain, the peer cache and process_line.    *)

LOG_LISTENERS ==
    <<"HeaderToTipListener", "BlockDownloadTimeoutListener",
      "ConnectBlockListener", "MempoolAcceptListener", "MempoolRejectListener",
      "BlockConnectedListener", "BlockDisconnectedListener", "ReorgListener",
      "PongListener">>

\* the listener instances as the module creates them
NewListeners ==
    [HeaderToTipListener |-> << >>,
     ConnectBlockListener |-> NewConnectBlockListener,
     ReorgListener |-> NewReorgListener]

\* listener.process_line(line) for the listener of that name
listener_process_line(name, ls, l, t) ==
    CASE name = "HeaderToTipListener" ->
            HeaderToTipListener_process_line(ls.HeaderToTipListener, l)
      [] name = "BlockDownloadTimeoutListener" ->
            BlockDownloadTimeoutListener_process_line(l)
      [] name = "ConnectBlockListener" ->
            ConnectBlockListener_process_line(ls.ConnectBlockListener, l)
      [] name = "MempoolAcceptListener" -> MempoolAcceptListener_process_line(l, t)
      [] name = "MempoolRejectListener" -> MempoolRejectListener_process_line(l, t)
      [] name = "BlockConnectedListener" -> BlockConnectedListener_process_line(l)
      [] name = "BlockDisconnectedListener" -> BlockDisconnectedListener_process_line(l)
      [] name = "ReorgListener" -> ReorgListener_process_line(ls.ReorgListener, l)
      [] name = "PongListener" -> PongListener_process_line(l, t)

\* the listener's state after the call, kept in the listener instance
listener_state(name, ls, st) ==
    IF name \in DOMAIN ls THEN [ls EXCEPT ![name] = st] ELSE ls

\* logparse.linehash: the digest of the line's text
linehash(w) == <<"md5", w>>

\* the daemon's getpeerinfo: the peer numbers it is connected to
getpeerinfo == {1}

\* commit_peers_db: get_or_create of each peer's row; only a created row is
\* put into peer_id_map and returned
commit_peers_db(st, peerinfo) ==
    LET created == peerinfo \ DOMAIN st.Peer
        row(n) == Cardinality(DOMAIN st.Peer) + Cardinality({m \in created : m <= n})
        new_ids == [n \in created |-> row(n)]
    IN  [Peer |-> [n \in DOMAIN st.Peer \cup created |->
                      IF n \in created THEN new_ids[n] ELSE st.Peer[n]],
         peer_id_map |-> [n \in DOMAIN st.peer_id_map \cup created |->
                             IF n \in created THEN new_ids[n] ELSE st.peer_id_map[n]],
         new_ids |-> new_ids]

\* sync_peer_data_blocking(peer_id); peer_id is << >> for None
sync_peer_data_blocking(st, peer_id) ==
    commit_peers_db(st, IF peer_id = << >> THEN getpeerinfo
                        ELSE {p \in getpeerinfo : p = peer_id[1]})

\* the models with a peer foreign key
HasPeerId(got) == got.type \in {"MempoolReject", "BlockDownloadTimeout"}

\* got.full_clean(): a HeaderToTipEvent needs all its timestamps
full_clean(got, l) ==
    /\ l.clean
    /\ got.type = "HeaderToTipEvent" => got.reconstruct_block_at # << >>

\* LogfilePosManager.mark
mark(hash, t) == <<[loghash |-> hash, timestamp |-> t]>>

\* LogfilePosManager.flush: the LogProgress row after it
flush(pos, row) == IF pos = << >> THEN row ELSE pos

\* the ProcessLineError row of a listener that raised
ProcessLineError(name, l) == [listener |-> name, line |-> l]

\* mutant: a listener's exception ends process_line
process_line_except_abort(acc, name, l) ==
    [acc EXCEPT !.errors = Append(@, ProcessLineError(name, l)), !.returned = TRUE]

\* process_line's except clause: record the error, continue with the chain
process_line_except(acc, name, l) ==
    [acc EXCEPT !.errors = Append(@, ProcessLineError(name, l))]

\* the peer id process_line finds: peer_id_map.get(peer_num), or on a miss
\* the entry of the map sync_peer_data_blocking returned; << >> is None
process_line_peer_id(map, new_ids, peer_num) ==
    IF Has(map, peer_num) THEN <<map[peer_num]>>
    ELSE IF Has(new_ids, peer_num) THEN <<new_ids[peer_num]>>
    ELSE << >>

\* mutant: an event without a peer id is kept
process_line_no_peer_keep(peer_id) == FALSE

\* "if not peer_id": the line is discarded
process_line_no_peer(peer_id) == peer_id = << >>

\* model_to_dict(got) once got.peer_id is set
model_to_dict(got, peer_id) ==
    IF HasPeerId(got) THEN got @@ [peer |-> peer_id] ELSE got

\* what process_line does with the value one listener returned
process_line_route(acc, name, r, l, t) ==
    IF r.raised
    THEN process_line_except(acc, name, l)
    ELSE IF r.ret = << >> THEN acc
    ELSE IF r.ret[1].type = "MempoolAccept"
    THEN [acc EXCEPT
            !.bitcoind_mempool_q =
                Append(@, [task |-> "mempool_activity", linehash |-> linehash(l)]),
            !.dispatched = Append(@, r.ret[1])]
    ELSE IF name = "PongListener"
    THEN [acc EXCEPT
            !.events_q = Append(@, [task |-> "sync_peer_data",
                                    peer_id |-> <<r.ret[1].peer_num>>])]
    ELSE
        LET got == r.ret[1]
            miss == HasPeerId(got) /\ ~Has(acc.peer_id_map, got.peer_num)
            synced == IF miss
                      THEN sync_peer_data_blocking(acc, <<got.peer_num>>)
                      ELSE [Peer |-> acc.Peer, peer_id_map |-> acc.peer_id_map,
                            new_ids |-> << >>]
            after == [acc EXCEPT !.Peer = synced.Peer,
                                 !.peer_id_map = synced.peer_id_map]
            peer_id == IF HasPeerId(got)
                       THEN process_line_peer_id(acc.peer_id_map, synced.new_ids,
                                                 got.peer_num)
                       ELSE << >>
            d == model_to_dict(got, peer_id)
        IN  IF HasPeerId(got) /\ process_line_no_peer(peer_id)
            THEN [after EXCEPT !.returned = TRUE]
            ELSE IF ~full_clean(got, l) THEN after
            ELSE [after EXCEPT
                    !.events_q = @ \o <<[task |-> "send_event", event |-> d,
                                         linehash |-> linehash(l)],
                                        [task |-> "write_logfile_pos"]>>,
                    !.dispatched = Append(@, got),
                    !.sent = Append(@, d),
                    !.logpos = mark(linehash(l), t)]

\* the loop of process_line over the listeners from the i-th on
RECURSIVE process_line_loop(_, _, _, _)
process_line_loop(acc, i, l, t) ==
    IF i > Len(LOG_LISTENERS) \/ acc.returned THEN acc
    ELSE
        LET name == LOG_LISTENERS[i]
            r == listener_process_line(name, acc.listeners, l, t)
            seen == [acc EXCEPT !.listeners = listener_state(name, @, r.st),
                                !.presented = Append(@, name)]
        IN  process_line_loop(process_line_route(seen, name, r, l, t), i + 1, l, t)

\* process_line(line, host) on the edge's state
process_line(l, t) ==
    process_line_loop(
        [listeners |-> listeners, events_q |-> events_q,
         bitcoind_mempool_q |-> bitcoind_mempool_q, peer_id_map |-> peer_id_map,
         Peer |-> Peer, logpos |-> logpos, errors |-> errors,
         presented |-> << >>, dispatched |-> << >>, sent |-> << >>,
         returned |-> FALSE],
        1, l, t)

\* the events the listeners return for the line, each listener run on its own
RECURSIVE isolated(_, _, _, _)
isolated(i, ls, l, t) ==
    IF i > Len(LOG_LISTENERS) THEN << >>
    ELSE LET r == listener_process_line(LOG_LISTENERS[i], ls, l, t)
         IN  (IF r.raised \/ LOG_LISTENERS[i] = "PongListener" THEN << >> ELSE r.ret)
             \o isolated(i + 1, ls, l, t)

\* the listeners that raise on the line, each run on its own, in chain order
RECURSIVE raising(_, _, _, _)
raising(i, ls, l, t) ==
    IF i > Len(LOG_LISTENERS) THEN << >>
    ELSE (IF listener_process_line(LOG_LISTENERS[i], ls, l, t).raised
          THEN <<LOG_LISTENERS[i]>> ELSE << >>)
         \o raising(i + 1, ls, l, t)

\* read_logfile_forever's seek: the number of lines skipped, up to and
\* including the first line whose hash is the cursor
seek(file, seek_to_cursor) ==
    IF seek_to_cursor = << >> THEN 0
    ELSE LET found == {i \in DOMAIN file : linehash(file[i]) = seek_to_cursor[1].loghash}
         IN  IF found = {} THEN 0
             ELSE CHOOSE i \in found : \A j \in found : i <= j

-----------------------------------------------------------------------------
(* The daemon's chain as the log shows it: forward progress, and balanced  *)
(* reorganisations (k blocks disconnected from the tip downward, then k    *)
(* blocks connected at the same heights), each line read by the listener.  *)

Mined == IF chain = << >> THEN 0 ELSE
         LET all == Range(chain) \cup
                    UNION {Range(e.old_blockhashes) : e \in Range(episodes)} \cup
                    Range(episode.old)
         IN  CHOOSE m \in all : \A o \in all : o <= m

NoEpisode == [phase |-> "forward", k |-> 0, old |-> << >>, new |-> << >>]

ReorgInit ==
    /\ listeners = NewListeners
    /\ chain = << >>
    /\ episode = NoEpisode
    /\ line = NoLine
    /\ reorgs = << >>
    /\ episodes = << >>

\* the listener reads the line the daemon writes
ReorgRead(l) ==
    LET r == ReorgListener_process_line(listeners.ReorgListener, l)
    IN  /\ line' = l
        /\ listeners' = [listeners EXCEPT !.ReorgListener = r.st]
        /\ reorgs' = reorgs \o r.ret

\* forward progress: a block is connected on top of the tip
ConnectTip ==
    /\ episode.phase = "forward"
    /\ Mined < MaxBlocks
    /\ chain' = Append(chain, Mined + 1)
    /\ ReorgRead(BlockLine("BlockConnected", FALSE, line.ts + 1, Len(chain), Mined + 1))
    /\ UNCHANGED <<episode, episodes>>

\* a reorganisation of depth k starts: the tip is disconnected
StartReorg(k) ==
    /\ episode.phase = "forward"
    /\ k <= Len(chain) - 1
    /\ Mined + k <= MaxBlocks
    /\ episode' = [phase |-> IF k = 1 THEN "connecting" ELSE "disconnecting",
                   k |-> k, old |-> <<chain[Len(chain)]>>, new |-> << >>]
    /\ chain' = SubSeq(chain, 1, Len(chain) - 1)
    /\ ReorgRead(BlockLine("BlockDisconnected", FALSE, line.ts + 1,
                           Len(chain) - 1, chain[Len(chain)]))
    /\ UNCHANGED episodes

\* the next block down is disconnected
DisconnectNext ==
    /\ episode.phase = "disconnecting"
    /\ episode' = [episode EXCEPT
                     !.old = <<chain[Len(chain)]>> \o @,
                     !.phase = IF Len(episode.old) + 1 = episode.k
                               THEN "connecting" ELSE "disconnecting"]
    /\ chain' = SubSeq(chain, 1, Len(chain) - 1)
    /\ ReorgRead(BlockLine("BlockDisconnected", FALSE, line.ts + 1,
                           Len(chain) - 1, chain[Len(chain)]))
    /\ UNCHANGED episodes

\* a replacing block is connected; the last one completes the episode
ConnectReplacement ==
    /\ episode.phase = "connecting"
    /\ LET new == Append(episode.new, Mined + 1)
           done == Len(new) = episode.k
       IN  /\ chain' = Append(chain, Mined + 1)
           /\ episode' = IF done THEN NoEpisode ELSE [episode EXCEPT !.new = new]
           /\ episodes' =
                IF done
                THEN Append(episodes,
                            [type |-> "ReorgEvent",
                             finished_timestamp |-> line.ts + 1,
                             min_height |-> Len(chain) - (episode.k - 1),
                             max_height |-> Len(chain),
                             old_blockhashes |-> episode.old,
                             new_blockhashes |-> new])
                ELSE episodes
    /\ ReorgRead(BlockLine("BlockConnected", FALSE, line.ts + 1, Len(chain), Mined + 1))

\* the " Enqueuing " duplicate the daemon logs ahead of a block event
EnqueuingLine(kind, height) ==
    /\ line.kind # "none"
    /\ ~line.enq
    /\ ReorgRead(BlockLine(kind, TRUE, line.ts, height, line.blockhash))
    /\ UNCHANGED <<chain, episode, episodes>>

-----------------------------------------------------------------------------
(* The edge: the daemon writing debug.log, watch_bitcoind_logs reading it  *)
(* line by line into process_line, the consumers of the two edge queues,   *)
(* the periodic tasks, and a restart of the edge process.                  *)
(* edge.pos counts the lines of the file the follower is past.  The other  *)
(* fields of edge are history: accepted is the line process_line last      *)
(* dispatched an event for, flushed tells that a flush ran since, durable  *)
(* is the accepted line at the last flush and floor the durable line at    *)
(* the last restart.                                                       *)

\* bitcoind_tasks.send_event(event, linehash): queues the hub's
\* persist_bitcoind_event task
send_event(event, hash) ==
    [task |-> "persist_bitcoind_event", event |-> event, linehash |-> hash]

\* server_tasks.persist_bitcoind_event: Model.objects.create(**event); only a
\* MempoolReject has its peer key renamed to peer_id, so the create of a
\* BlockDownloadTimeout is handed a number for its peer relation and raises
persist_bitcoind_event(event, hash) ==
    IF event.type = "BlockDownloadTimeout" THEN << >>
    ELSE <<[event |-> event, linehash |-> hash]>>

NoRun == [idx |-> 0, presented |-> << >>, dispatched |-> << >>,
          isolated |-> << >>, floor |-> 0, sent |-> << >>, raising |-> << >>,
          errors |-> << >>, marked |-> FALSE]

\* what watch_bitcoind_logs queues when the edge boots
Boot == <<[task |-> "sync_peer_data", peer_id |-> << >>]>>

EdgeInit ==
    /\ logfile = << >>
    /\ edge = [pos |-> 0, restarts |-> 0, accepted |-> 0, flushed |-> FALSE,
               durable |-> 0, floor |-> 0]
    /\ logpos = << >>
    /\ LogProgress = << >>
    /\ events_q = Boot
    /\ bitcoind_mempool_q = << >>
    /\ peer_id_map = << >>
    /\ Peer = << >>
    /\ errors = << >>
    /\ run = NoRun
    /\ server_q = << >>
    /\ persisted = << >>

\* the lines the daemon may write at time t
Line(t) == [NoLine EXCEPT !.ts = t]

BlockLines(t) ==
    {[Line(t) EXCEPT !.kind = "SawHeader", !.height = 1, !.blockhash = 1],
     [Line(t) EXCEPT !.kind = "Reconstructed", !.blockhash = 1],
     [Line(t) EXCEPT !.kind = "UpdateTip", !.height = 1, !.blockhash = 1],
     [Line(t) EXCEPT !.kind = "Detail", !.label = "flush_coins_time_ms"],
     [Line(t) EXCEPT !.kind = "Detail", !.label = CONNECTBLOCK_TOTAL],
     BlockLine("BlockDisconnected", FALSE, t, 1, 1),
     BlockLine("BlockConnected", FALSE, t, 1, 2)}

PeerLines(t) ==
    {[Line(t) EXCEPT !.kind = "Accept", !.txhash = "t1", !.peer = <<1>>],
     [Line(t) EXCEPT !.kind = "Accept", !.txhash = "t1"],
     [Line(t) EXCEPT !.kind = "Reject", !.txhash = "t1", !.peer = <<1>>],
     [Line(t) EXCEPT !.kind = "Reject", !.txhash = "t1", !.peer = <<2>>],
     [Line(t) EXCEPT !.kind = "Timeout", !.blockhash = 1, !.peer = <<1>>,
                     !.clean = FALSE],
     [Line(t) EXCEPT !.kind = "Pong", !.peer = <<1>>],
     [Line(t) EXCEPT !.kind = "other"]}

RouterLines(t) == BlockLines(t) \cup PeerLines(t)

CursorLines(t) ==
    {[Line(t) EXCEPT !.kind = "Accept", !.txhash = "t1", !.peer = <<1>>],
     [Line(t) EXCEPT !.kind = "UpdateTip", !.height = 1, !.blockhash = 1],
     [Line(t) EXCEPT !.kind = "Timeout", !.blockhash = 1, !.peer = <<1>>],
     [Line(t) EXCEPT !.kind = "other"]}

CanWrite(limit) == Len(logfile) < limit

\* the daemon appends a line to debug.log
DaemonWrite(l) ==
    /\ logfile' = Append(logfile, l)
    /\ UNCHANGED <<listeners, edge, logpos, LogProgress, events_q,
                   bitcoind_mempool_q, peer_id_map, Peer, errors, run,
                   server_q, persisted>>

\* watch_bitcoind_logs: the follower yields the next line to process_line
ReadLine ==
    /\ edge.pos < Len(logfile)
    /\ LET l == logfile[edge.pos + 1]
           acc == process_line(l, now)
           accepted == acc.dispatched # << >>
       IN  /\ listeners' = acc.listeners
           /\ events_q' = acc.events_q
           /\ bitcoind_mempool_q' = acc.bitcoind_mempool_q
           /\ peer_id_map' = acc.peer_id_map
           /\ Peer' = acc.Peer
           /\ logpos' = acc.logpos
           /\ errors' = acc.errors
           /\ edge' = [edge EXCEPT !.pos = @ + 1,
                                   !.accepted = IF accepted THEN edge.pos + 1 ELSE @,
                                   !.flushed = IF accepted THEN FALSE ELSE @]
           /\ run' = [idx |-> edge.pos + 1, presented |-> acc.presented,
                      dispatched |-> acc.dispatched,
                      isolated |-> isolated(1, listeners, l, now),
                      floor |-> edge.floor, sent |-> acc.sent,
                      raising |-> raising(1, listeners, l, now),
                      errors |-> SubSeq(acc.errors, Len(errors) + 1, Len(acc.errors)),
                      marked |-> acc.logpos = mark(linehash(l), now)]
    /\ UNCHANGED <<logfile, LogProgress, server_q, persisted>>

\* write_logfile_pos: logfile_pos.flush()
WriteLogfilePosEffect ==
    /\ LogProgress' = flush(logpos, LogProgress)
    /\ edge' = [edge EXCEPT !.flushed = TRUE, !.durable = edge.accepted]

\* sync_peer_data(peer_id)
SyncPeerDataEffect(peer_id) ==
    LET synced == sync_peer_data_blocking([Peer |-> Peer, peer_id_map |-> peer_id_map],
                                          peer_id)
    IN  /\ Peer' = synced.Peer
        /\ peer_id_map' = synced.peer_id_map

\* the events_q consumer runs the next task
RunEventsTask ==
    /\ events_q # << >>
    /\ events_q' = Tail(events_q)
    /\ LET task == Head(events_q)
       IN  CASE task.task = "send_event" ->
                    /\ server_q' = Append(server_q, send_event(task.event, task.linehash))
                    /\ UNCHANGED <<LogProgress, edge, Peer, peer_id_map>>
             [] task.task = "write_logfile_pos" ->
                    WriteLogfilePosEffect /\ UNCHANGED <<Peer, peer_id_map, server_q>>
             [] task.task = "sync_peer_data" ->
                    /\ SyncPeerDataEffect(task.peer_id)
                    /\ UNCHANGED <<LogProgress, edge, server_q>>
    /\ UNCHANGED <<logfile, listeners, logpos, bitcoind_mempool_q, errors, run,
                   persisted>>

\* the hub's server_q consumer runs the next persist_bitcoind_event task
PersistBitcoindEvent ==
    /\ server_q # << >>
    /\ server_q' = Tail(server_q)
    /\ persisted' = persisted \o persist_bitcoind_event(Head(server_q).event,
                                                        Head(server_q).linehash)
    /\ UNCHANGED <<logfile, listeners, edge, logpos, LogProgress, events_q,
                   bitcoind_mempool_q, peer_id_map, Peer, errors, run>>

\* the mempool_q consumer runs the next mempool_activity task
MempoolActivity ==
    /\ bitcoind_mempool_q # << >>
    /\ bitcoind_mempool_q' = Tail(bitcoind_mempool_q)
    /\ logpos' = mark(Head(bitcoind_mempool_q).linehash, now)
    /\ UNCHANGED <<logfile, listeners, edge, LogProgress, events_q, peer_id_map,
                   Peer, errors, run, server_q, persisted>>

\* the periodic write_logfile_pos
WriteLogfilePos ==
    /\ WriteLogfilePosEffect
    /\ UNCHANGED <<logfile, listeners, logpos, events_q, bitcoind_mempool_q,
                   peer_id_map, Peer, errors, run, server_q, persisted>>

\* the periodic sync_peer_data
SyncPeerData ==
    /\ SyncPeerDataEffect(<< >>)
    /\ UNCHANGED <<logfile, listeners, edge, logpos, LogProgress, events_q,
                   bitcoind_mempool_q, errors, run, server_q, persisted>>

\* the edge process is stopped and started again: watch_bitcoind_logs reads
\* the cursor from the Store and read_logfile_forever seeks to it
Restart ==
    /\ edge.restarts < MaxRestarts
    /\ edge' = [edge EXCEPT !.pos = seek(logfile, LogProgress),
                            !.restarts = @ + 1,
                            !.floor = edge.durable]
    /\ listeners' = NewListeners
    /\ events_q' = events_q \o Boot
    /\ UNCHANGED <<logfile, logpos, LogProgress, bitcoind_mempool_q, peer_id_map,
                   Peer, errors, run, server_q, persisted>>

\* the edge's fast store (its local redis) is lost: the cursor cache, the
\* peer caches and the two edge queues go with it; the Store keeps its rows
FastStoreLost ==
    /\ peer_id_map # << >>
    /\ peer_id_map' = << >>
    /\ logpos' = << >>
    /\ events_q' = << >>
    /\ bitcoind_mempool_q' = << >>
    /\ UNCHANGED <<logfile, listeners, edge, LogProgress, Peer, errors, run,
                   server_q, persisted>>

\* the lines that name a peer
PeerEventLines(t) ==
    {[Line(t) EXCEPT !.kind = "Reject", !.txhash = "t1", !.peer = <<1>>],
     [Line(t) EXCEPT !.kind = "Reject", !.txhash = "t1", !.peer = <<2>>],
     [Line(t) EXCEPT !.kind = "Timeout", !.blockhash = 1, !.peer = <<1>>],
     [Line(t) EXCEPT !.kind = "Pong", !.peer = <<1>>]}

\* the wall clock advances past the listeners' ignore_older_than
EdgeTickSteps == {IGNORE_OLDER_THAN + 1}

EdgeTick(d) ==
    /\ ticks < MaxEdgeTicks
    /\ now' = now + d
    /\ ticks' = ticks + 1

-----------------------------------------------------------------------------
(* logparse.read_logfile_forever over a file of characters.  tail.files    *)
(* holds the contents of the files by inode and tail.path the inode the    *)
(* log path names; the daemon appends whole lines and the log is rotated   *)
(* by putting a new file at the path.  The follower has the file of inode  *)
(* curino open at offset pos.  History: at_open is the file as the         *)
(* follower found it, reopens counts the inode changes it detected, since  *)
(* is the number of lines yielded before the last one, prev the inode it   *)
(* had open until then and drained tells that it had read that whole file. *)

NL == "\n"

\* the texts of the lines the daemon writes
LineTexts == {<< >>, <<"x">>, <<"x", "y">>}

\* the cursors watch_bitcoind_logs may pass: None, or a line's hash
Cursors == {<< >>} \cup {<<linehash(w)>> : w \in LineTexts}

NoTail ==
    [phase |-> "idle", path |-> 1, files |-> <<<< >>>>, cursor |-> << >>,
     curino |-> 0, pos |-> 0, eof |-> FALSE, curr_line |-> << >>,
     yielded |-> << >>, at_open |-> << >>, reopens |-> 0, since |-> 0,
     drained |-> FALSE, prev |-> 0]

\* the offset after the next newline at or after pos, or the end of the data
readline_end(data, pos) ==
    LET nls == {i \in (pos + 1)..Len(data) : data[i] = NL}
    IN  IF nls = {} THEN Len(data) ELSE CHOOSE i \in nls : \A j \in nls : i <= j

\* line.rstrip("\n") of a line readline returned
rstrip(w) == IF w # << >> /\ w[Len(w)] = NL THEN SubSeq(w, 1, Len(w) - 1) ELSE w

\* mutant: the follower starts at the matching line
seek_tell_before(line_start, line_end) == line_start

\* current.tell() after the readline that returned the matching line
seek_tell(line_start, line_end) == line_end

\* the seek loop from offset pos: start_pos, or 0 (None) when no line matches
RECURSIVE seek_to_cursor(_, _, _)
seek_to_cursor(data, pos, cursor) ==
    IF pos >= Len(data) THEN 0
    ELSE LET end == readline_end(data, pos)
             hashed == linehash(rstrip(SubSeq(data, pos + 1, end)))
         IN  IF hashed = cursor THEN seek_tell(pos, end)
             ELSE seek_to_cursor(data, end, cursor)

\* got.split("\n")
RECURSIVE split(_)
split(got) ==
    LET nls == {i \in DOMAIN got : got[i] = NL}
    IN  IF nls = {} THEN <<got>>
        ELSE LET i == CHOOSE k \in nls : \A j \in nls : k <= j
             IN  <<SubSeq(got, 1, i - 1)>> \o split(SubSeq(got, i + 1, Len(got)))

\* mutant: a read without a newline replaces the unfinished line
read_chunk_forgetful(curr_line, got) ==
    LET lines == split(got)
    IN  IF Len(lines) >= 2
        THEN [yield |-> <<curr_line \o lines[1]>> \o SubSeq(lines, 2, Len(lines) - 1),
              curr_line |-> lines[Len(lines)]]
        ELSE [yield |-> << >>, curr_line |-> got]

\* one pass of the inner loop on the characters got: the lines yielded and
\* the unfinished line kept
read_chunk(curr_line, got) ==
    LET lines == split(got)
    IN  IF Len(lines) >= 2
        THEN [yield |-> <<curr_line \o lines[1]>> \o SubSeq(lines, 2, Len(lines) - 1),
              curr_line |-> lines[Len(lines)]]
        ELSE [yield |-> << >>, curr_line |-> curr_line \o got]

\* read_logfile_forever(filename, seek_to_cursor) is called: open, seek
FollowerOpen(cursor) ==
    /\ tail.phase = "idle"
    /\ LET data == tail.files[tail.path]
           start_pos == IF cursor = << >> THEN 0
                        ELSE seek_to_cursor(data, 0, cursor[1])
       IN  tail' = [tail EXCEPT !.phase = "reading", !.cursor = cursor,
                                !.curino = tail.path, !.pos = start_pos,
                                !.at_open = data]

\* current.read(1024): characters are yielded as lines, or the file is out
\* of contents
FollowerRead ==
    /\ tail.phase = "reading"
    /\ ~tail.eof
    /\ LET data == tail.files[tail.curino]
           to == IF tail.pos + MaxChunk < Len(data) THEN tail.pos + MaxChunk
                 ELSE Len(data)
           r == read_chunk(tail.curr_line, SubSeq(data, tail.pos + 1, to))
       IN  IF tail.pos = Len(data)
           THEN tail' = [tail EXCEPT !.eof = TRUE]
           ELSE tail' = [tail EXCEPT !.pos = to, !.curr_line = r.curr_line,
                                     !.yielded = @ \o r.yield]

\* mutant: the reopened file is read from the old file's offset
openfile_pos_kept(pos) == pos

\* openfile(): the offset of the newly opened file
openfile_pos(pos) == 0

\* out of contents: os.stat(filename); on an inode change the path is
\* reopened, otherwise the follower sleeps and reads again
FollowerStat ==
    /\ tail.phase = "reading"
    /\ tail.eof
    /\ IF tail.path # tail.curino
       THEN tail' = [tail EXCEPT !.eof = FALSE, !.curino = tail.path,
                                 !.pos = openfile_pos(tail.pos),
                                 !.reopens = @ + 1, !.since = Len(tail.yielded),
                                 !.prev = tail.curino,
                                 !.drained = tail.pos = Len(tail.files[tail.curino])]
       ELSE tail' = [tail EXCEPT !.eof = FALSE]

\* the daemon appends a line to the file at the log path
Written == Sum([i \in DOMAIN tail.files |-> Len(tail.files[i])], DOMAIN tail.files)

DaemonAppend(w) ==
    /\ Written + Len(w) + 1 <= MaxFileLen
    /\ tail' = [tail EXCEPT !.files[tail.path] = @ \o w \o <<NL>>]

\* the characters the daemon's writes are made of
Chars == {"x", "y", NL}

\* the daemon's write reaches the file one character at a time
DaemonAppendChar(c) ==
    /\ Written + 1 <= MaxFileLen
    /\ tail' = [tail EXCEPT !.files[tail.path] = Append(@, c)]

\* the log is rotated: a new, empty file is at the log path
Rotate ==
    /\ tail.path <= MaxRotations
    /\ tail' = [tail EXCEPT !.path = @ + 1, !.files = Append(@, << >>)]

-----------------------------------------------------------------------------
(* bitcoin.api: gather_rpc over the configured hosts.  rpc.up is the set   *)
(* of daemons that answer RPC calls at the moment, rpc.cached the hosts    *)
(* whose RPC object get_rpc has cached, rpc.mapped whether                 *)
(* get_rpc_for_hosts has cached its map, and rpc.out the last gather_rpc   *)
(* call: whether it raised, the map it returned and the daemons that       *)
(* answered during the call.                                               *)

\* infra.get_bitcoind_hosts(), in the order of the configuration
bitcoind_hosts == <<"a", "b", "c">>

\* the sentinel object, which no call returns
RPC_ERROR_RESULT == [result_of |-> "RPC_ERROR_RESULT"]

NoRpc == [up |-> host_names, cached |-> {}, mapped |-> FALSE, out |-> << >>, flips |-> 0]

\* get_rpc(host): cached once it has returned; otherwise it probes the daemon
\* with getblockchaininfo boot_tries times and raises RuntimeError when no
\* probe is answered
get_rpc(cached, up, host) ==
    IF host \in cached THEN [raised |-> FALSE, cached |-> cached]
    ELSE IF host \in up THEN [raised |-> FALSE, cached |-> cached \cup {host}]
    ELSE [raised |-> TRUE, cached |-> cached]

\* get_rpc_for_hosts(hosts): the dict comprehension over the hosts from the
\* i-th on; an exception leaves the function's own cache unset
RECURSIVE get_rpc_for_hosts_loop(_, _, _)
get_rpc_for_hosts_loop(cached, up, i) ==
    IF i > Len(bitcoind_hosts) THEN [raised |-> FALSE, cached |-> cached]
    ELSE LET r == get_rpc(cached, up, bitcoind_hosts[i])
         IN  IF r.raised THEN r
             ELSE get_rpc_for_hosts_loop(r.cached, up, i + 1)

get_rpc_for_hosts(st) ==
    IF st.mapped THEN [raised |-> FALSE, cached |-> st.cached, mapped |-> TRUE]
    ELSE LET r == get_rpc_for_hosts_loop(st.cached, st.up, 1)
         IN  [raised |-> r.raised, cached |-> r.cached, mapped |-> ~r.raised]

\* the call submitted for a host: its own result, or << >> when it raises
rpc_call(up, host) == IF host \in up THEN <<[result_of |-> host]>> ELSE << >>

\* gather_rpc(rpc_call_arg)
gather_rpc(st) ==
    LET rpcmap == get_rpc_for_hosts(st)
        results == [hostname \in Range(bitcoind_hosts) |->
                        IF rpc_call(st.up, hostname) = << >> THEN RPC_ERROR_RESULT
                        ELSE rpc_call(st.up, hostname)[1]]
    IN  [st EXCEPT !.cached = rpcmap.cached,
                   !.mapped = rpcmap.mapped,
                   !.out = <<[raised |-> rpcmap.raised,
                              results |-> IF rpcmap.raised THEN << >> ELSE results,
                              up |-> st.up]>>]

GatherRpc == rpc' = gather_rpc(rpc)

\* a daemon stops answering, or answers again
HostFlip(h) ==
    /\ rpc.flips < MaxFlips
    /\ rpc' = [rpc EXCEPT !.up = IF h \in @ THEN @ \ {h} ELSE @ \cup {h},
                          !.flips = @ + 1]

-----------------------------------------------------------------------------
(* The ConnectBlockListener and the HeaderToTipListener on the lines of    *)
(* the log, one after the other, from freshly created listeners (an edge   *)
(* process that has just started).  The timestamp of a line is its         *)
(* position in the log.  parsed keeps, for each line, the line and, for    *)
(* each of the two listeners, what it returned, whether it raised and the  *)
(* state it was left in.                                                   *)

\* the lines about connecting a block
ConnectLines(t) ==
    {[Line(t) EXCEPT !.kind = "UpdateTip", !.height = 1, !.blockhash = 1],
     [Line(t) EXCEPT !.kind = "UpdateTip", !.height = 2, !.blockhash = 2],
     [Line(t) EXCEPT !.kind = "Detail", !.label = "flush_coins_time_ms"],
     [Line(t) EXCEPT !.kind = "Detail", !.label = "connect_postprocess_time_ms"],
     [Line(t) EXCEPT !.kind = "Detail", !.label = CONNECTBLOCK_TOTAL]}

\* the lines about a block on its way from header to tip
HeaderLines(t) ==
    {[Line(t) EXCEPT !.kind = "SawHeader", !.height = 1, !.blockhash = 1],
     [Line(t) EXCEPT !.kind = "SawHeader", !.height = 2, !.blockhash = 2],
     [Line(t) EXCEPT !.kind = "Reconstructed", !.blockhash = 1],
     [Line(t) EXCEPT !.kind = "Reconstructed", !.blockhash = 2],
     [Line(t) EXCEPT !.kind = "UpdateTip", !.height = 1, !.blockhash = 1],
     [Line(t) EXCEPT !.kind = "UpdateTip", !.height = 2, !.blockhash = 2],
     [Line(t) EXCEPT !.kind = "other"]}

\* the UpdateTip-level lines of blocks connected and disconnected, in any order
ConnectDisconnectLines(t) ==
    {BlockLine(kind, FALSE, t, h, h) :
        kind \in {"BlockConnected", "BlockDisconnected"}, h \in {1, 2}}

\* what a listener did with a line
Outcome(r) == [ret |-> r.ret, raised |-> r.raised, st |-> r.st]

\* the next line of the log is handed to the two listeners
ParseLine(l) ==
    LET cb == ConnectBlockListener_process_line(listeners.ConnectBlockListener, l)
        ht == HeaderToTipListener_process_line(listeners.HeaderToTipListener, l)
    IN  /\ listeners' = [listeners EXCEPT !.ConnectBlockListener = cb.st,
                                          !.HeaderToTipListener = ht.st]
        /\ parsed' = Append(parsed, [line |-> l, ConnectBlockListener |-> Outcome(cb),
                                     HeaderToTipListener |-> Outcome(ht)])

-----------------------------------------------------------------------------
(* mempool: concurrent mark_seen calls for one txid, one per host.         *)

\* the txid the hosts mark
MarkedTxid == "t1"

NoMarking ==
    [lock |-> << >>,
     calls |-> [h \in host_names |->
                   [pc |-> "idle", ret |-> None, raised |-> FALSE, wrote |-> FALSE]],
     order |-> << >>]

\* mutant: the lock is granted whether or not another call holds it
txid_lock_acquire_always(lock) == TRUE

\* get_txid_lock(txid).acquire(): SET NX of mpa:<txid>
txid_lock_acquire(lock) == lock = << >>

\* a server_q worker calls mark_seen(host, txid, seen_at)
MarkSeenCall(h) ==
    /\ marking.calls[h].pc = "idle"
    /\ marking' = [marking EXCEPT !.calls[h].pc = "acquire"]
    /\ UNCHANGED <<now, ticks, redisdb, mempool_q, last, writes, marked, completed>>

\* "with self.get_txid_lock(txid)": the lock is taken
MarkSeenAcquire(h) ==
    /\ marking.calls[h].pc = "acquire"
    /\ txid_lock_acquire(marking.lock)
    /\ marking' = [marking EXCEPT !.lock = <<h>>, !.calls[h].pc = "write"]
    /\ UNCHANGED <<now, ticks, redisdb, mempool_q, last, writes, marked, completed>>

\* blocking_timeout=10 has passed with the lock held by another call: LockError
MarkSeenTimeout(h) ==
    /\ marking.calls[h].pc = "acquire"
    /\ marking.lock # << >>
    /\ marking' = [marking EXCEPT !.calls[h].pc = "done", !.calls[h].raised = TRUE]
    /\ UNCHANGED <<now, ticks, redisdb, mempool_q, last, writes, marked, completed>>

\* the writes of mark_seen, up to the incr of the host's counter
MarkSeenWrite(h) ==
    /\ marking.calls[h].pc = "write"
    /\ LET m == mark_seen(redisdb, h, MarkedTxid, now, now)
       IN  /\ redisdb' = m.redis
           /\ marking' = [marking EXCEPT
                            !.calls[h].pc = "read",
                            !.calls[h].raised = m.raised,
                            !.calls[h].wrote = ~m.dup /\ ~m.raised,
                            !.order = IF m.dup \/ m.raised THEN @ ELSE Append(@, h)]
    /\ UNCHANGED <<now, ticks, mempool_q, last, writes, marked, completed>>

\* the mget of every host's key, the status returned, and the lock's release
MarkSeenRead(h) ==
    /\ marking.calls[h].pc = "read"
    /\ marking' = [marking EXCEPT
                     !.calls[h].pc = "done",
                     !.calls[h].ret =
                         IF marking.calls[h].wrote
                         THEN mark_seen_status(redisdb, h, MarkedTxid)
                         ELSE None,
                     !.lock = IF @ = <<h>> THEN << >> ELSE @]
    /\ UNCHANGED <<now, ticks, redisdb, mempool_q, last, writes, marked, completed>>

-----------------------------------------------------------------------------
(* bitcoind_tasks: the rolling mempool file and its shipping.              *)
(* The cursor mark of mempool_activity is the MempoolActivity action; the  *)
(* tasks here carry no line.                                               *)

\* the consumers of mempool_q
mempool_workers == {1, 2}

\* ship.clock counts periods of SHIP_LOGS_EVERY_MINUTES
SHIP_LOGS_EVERY == 1

\* the fractions of a second datetime.now() may fall on
Micros == {0, 1}

\* f"to-ship.{now_str}.avro": isoformat() of a time with microseconds
to_ship_name(sec, usec) == <<"to-ship", sec, usec, "avro">>

\* shipfile.name.split(".")[1]: the time up to the first dot
timestr(shipfile) == shipfile[2]

\* f"shipped.{timestr}.avro"
shipped_name(shipfile) == <<"shipped", timestr(shipfile), "avro">>

NoShip ==
    [pc |-> [w \in mempool_workers |-> "idle"],
     job |-> [w \in mempool_workers |-> << >>],
     queue |-> [mempool_activity |-> 0, ship_mempool_activity |-> 0],
     keys |-> [activity |-> FALSE, ship |-> FALSE],
     last_shipped |-> << >>,
     current |-> << >>,
     files |-> {},
     clock |-> 0,
     made |-> 0,
     uploaded |-> {},
     failed |-> {},
     noops |-> 0,
     overrun |-> [activity |-> FALSE, ship |-> FALSE]]

\* the workers between acquiring a lock and being done with it
InSection(st, name) ==
    {w \in mempool_workers :
        st.pc[w] \in (IF name = "activity" THEN {"append", "rotate", "release"}
                      ELSE {"ship"})}

\* mutant: the activity lock is granted whether or not its key exists
activity_lock_acquire_always(keys) == TRUE

\* lock_acquire of mempool_activity_lock: SETNX of the key
activity_lock_acquire(keys) == ~keys.activity

\* mutant: the ship lock is granted whether or not its key exists
ship_lock_acquire_always(keys) == TRUE

\* lock_acquire of mempool_ship_lock: SETNX of the key
ship_lock_acquire(keys) == ~keys.ship

\* the files of the cache directory matching "to-ship*", in some order
RECURSIVE glob_to_ship(_)
glob_to_ship(files) ==
    LET S == {f \in files : f[1] = "to-ship"}
    IN  IF S = {} THEN << >>
        ELSE LET f == CHOOSE x \in S : \A y \in S :
                          \/ x[2] < y[2]
                          \/ x[2] = y[2] /\ x[3] <= y[3]
             IN  <<f>> \o glob_to_ship(files \ {f})

\* mutant: the file is renamed whether or not the upload succeeded
ship_one_regardless(files, shipfile, ok) ==
    (files \ {shipfile}) \cup {shipped_name(shipfile)}

\* upload_from_filename(shipfile), then mv shipfile to its shipped name
ship_one(files, shipfile, ok) ==
    IF ok THEN (files \ {shipfile}) \cup {shipped_name(shipfile)} ELSE files

\* process_line puts a mempool_activity task on mempool_q
EnqueueActivity ==
    /\ ship.made < MaxActivity
    /\ ship' = [ship EXCEPT !.made = @ + 1, !.queue.mempool_activity = @ + 1]

\* a worker takes a mempool_activity task and waits for mempool_activity_lock
ActivityStart(w) ==
    /\ ship.pc[w] = "idle"
    /\ ship.queue.mempool_activity > 0
    /\ ship' = [ship EXCEPT !.queue.mempool_activity = @ - 1, !.pc[w] = "acquire"]

\* with mempool_activity_lock: the blocking acquire returns
ActivityAcquire(w) ==
    /\ ship.pc[w] = "acquire"
    /\ activity_lock_acquire(ship.keys)
    /\ ship' = [ship EXCEPT !.keys.activity = TRUE, !.pc[w] = "append"]

\* the record is written to CURRENT_MEMPOOL_FILE and LAST_SHIPPED_KEY is read
ActivityAppend(w) ==
    /\ ship.pc[w] = "append"
    /\ LET written == [ship EXCEPT !.current =
                          IF @ = << >> THEN <<1>> ELSE <<@[1] + 1>>]
       IN  ship' =
               IF ship.last_shipped = << >>
               THEN [written EXCEPT !.last_shipped = <<ship.clock>>,
                                    !.pc[w] = "release"]
               ELSE IF ship.clock - SHIP_LOGS_EVERY >= ship.last_shipped[1]
               THEN [written EXCEPT !.pc[w] = "rotate"]
               ELSE [written EXCEPT !.pc[w] = "release"]

\* queue_mempool_to_ship; a failing mv raises out of the with block
queue_mempool_to_ship(w, usec) ==
    /\ ship.pc[w] = "rotate"
    /\ ship' =
           IF ship.current = << >>
           THEN [ship EXCEPT !.pc[w] = "idle", !.keys.activity = FALSE]
           ELSE [ship EXCEPT
                   !.current = << >>,
                   !.files = @ \cup {to_ship_name(ship.clock, usec)},
                   !.last_shipped = <<ship.clock>>,
                   !.queue.ship_mempool_activity = @ + 1,
                   !.pc[w] = "release"]

\* the with block is left: lock_release deletes the key
ActivityRelease(w) ==
    /\ ship.pc[w] = "release"
    /\ ship' = [ship EXCEPT !.keys.activity = FALSE, !.pc[w] = "idle"]

\* a worker takes a ship_mempool_activity task:
\* mempool_ship_lock.acquire(block=False), and the glob if it got the lock
ShipStart(w) ==
    /\ ship.pc[w] = "idle"
    /\ ship.queue.ship_mempool_activity > 0
    /\ ship' =
           IF ship_lock_acquire(ship.keys)
           THEN [ship EXCEPT !.queue.ship_mempool_activity = @ - 1,
                             !.keys.ship = TRUE,
                             !.pc[w] = "ship",
                             !.job[w] = glob_to_ship(ship.files)]
           ELSE [ship EXCEPT !.queue.ship_mempool_activity = @ - 1,
                             !.noops = IF @ < 1 THEN @ + 1 ELSE @]

\* one turn of the loop over the to-ship files; a failed upload, or a file
\* that is no longer there, raises: the lock is released and the task ends
ShipUpload(w, ok) ==
    /\ ship.pc[w] = "ship"
    /\ ship.job[w] # << >>
    /\ LET shipfile == Head(ship.job[w])
           success == ok /\ shipfile \in ship.files
       IN  ship' =
               IF success
               THEN [ship EXCEPT !.files = ship_one(@, shipfile, TRUE),
                                 !.uploaded = @ \cup {shipfile},
                                 !.job[w] = Tail(@)]
               ELSE [ship EXCEPT !.files = ship_one(@, shipfile, FALSE),
                                 !.failed = @ \cup {shipfile},
                                 !.keys.ship = FALSE,
                                 !.job[w] = << >>,
                                 !.pc[w] = "idle"]

\* the loop is over: the task returns, the lock is left to expire
ShipDone(w) ==
    /\ ship.pc[w] = "ship"
    /\ ship.job[w] = << >>
    /\ ship' = [ship EXCEPT !.pc[w] = "idle"]

\* the key of a lock reaches its TTL
LockExpire(name) ==
    /\ ship.keys[name]
    /\ ship' = [ship EXCEPT !.keys[name] = FALSE,
                            !.overrun[name] = @ \/ InSection(ship, name) # {}]

\* two hours pass; no lock key lives that long
ShipTick ==
    /\ ship.clock < MaxShipTicks
    /\ ship' = [ship EXCEPT
                  !.clock = @ + 1,
                  !.keys = [activity |-> FALSE, ship |-> FALSE],
                  !.overrun =
                      [activity |-> @.activity \/
                           (ship.keys.activity /\ InSection(ship, "activity") # {}),
                       ship |-> @.ship \/
                           (ship.keys.ship /\ InSection(ship, "ship") # {})]]

\* the next line of the log is handed to the ReorgListener
ParseBlockLine(l) ==
    LET r == ReorgListener_process_line(listeners.ReorgListener, l)
    IN  /\ listeners' = [listeners EXCEPT !.ReorgListener = r.st]
        /\ parsed' = Append(parsed, [line |-> l, ReorgListener |-> Outcome(r)])

-----------------------------------------------------------------------------
(* Specifications.                                                         *)


hub_vars == <<now, ticks, redisdb, mempool_q, last, writes, marked, completed>>

reorg_vars == <<listeners, chain, episode, line, reorgs, episodes>>

edge_vars == <<logfile, edge, logpos, LogProgress, events_q, bitcoind_mempool_q,
               peer_id_map, Peer, errors, run, server_q, persisted>>

vars == <<hub_vars, perm, reorg_vars, edge_vars, tail, rpc, parsed, marking, ship>>

Init ==
    /\ HubInit
    /\ perm = PermIdle
    /\ ReorgInit
    /\ EdgeInit
    /\ tail = NoTail
    /\ rpc = NoRpc
    /\ parsed = << >>
    /\ marking = NoMarking
    /\ ship = NoShip

\* what the hub's actions leave alone
not_hub == <<perm, reorg_vars, edge_vars, tail, rpc, parsed, marking, ship>>

\* the aggregator and the hub's tasks on one transaction
Next ==
    \/ \E h \in host_names, t \in OneTxid, s \in SeenAts :
           CanMark(MaxMarks) /\ ProcessMempoolAccept(t, s, h) /\ UNCHANGED not_hub
    \/ ProcessCompletedPropagations /\ UNCHANGED not_hub
    \/ \E t \in OneTxid, ac \in BOOLEAN : FinalizePropagation(t, ac) /\ UNCHANGED not_hub
    \/ \E ma \in {NoArg, <<0>>} : ProcessAllAged(ma, NoArg) /\ UNCHANGED not_hub

Spec == Init /\ [][Next]_vars

\* the aggregator on two transactions, with the hub's clock advancing
NextTime ==
    \/ \E h \in host_names, t \in Txids, s \in SeenAts :
           CanMark(MaxTimedMarks) /\ ProcessMempoolAccept(t, s, h) /\ UNCHANGED not_hub
    \/ \E t \in Txids, ac \in BOOLEAN : FinalizePropagation(t, ac) /\ UNCHANGED not_hub
    \/ \E ma \in {NoArg, <<0>>}, lta \in {NoArg, <<now>>} :
           ProcessAllAged(ma, lta) /\ UNCHANGED not_hub
    \/ \E d \in TickSteps : Tick(d) /\ UNCHANGED not_hub

SpecTime == Init /\ [][NextTime]_vars

\* the periodic task process_aged_propagations
Reaper == ProcessAllAged(NoArg, NoArg) /\ UNCHANGED not_hub

Clock == \E d \in LiveTickSteps : LiveTick(d) /\ UNCHANGED not_hub

\* the aggregator with the reaper run again and again and time advancing
NextLive ==
    \/ \E h \in host_names, t \in OneTxid :
           CanMark(MaxLiveMarks) /\ ProcessMempoolAccept(t, now, h) /\ UNCHANGED not_hub
    \/ \E t \in OneTxid : FinalizePropagation(t, FALSE) /\ UNCHANGED not_hub
    \/ Reaper
    \/ Clock

SpecLive == Init /\ [][NextLive]_vars /\ WF_vars(Reaper) /\ WF_vars(Clock)

InitPerm ==
    /\ HubInit
    /\ perm \in PermStarts
    /\ ReorgInit
    /\ EdgeInit
    /\ tail = NoTail
    /\ rpc = NoRpc
    /\ parsed = << >>
    /\ marking = NoMarking
    /\ ship = NoShip

NextPerm ==
    \/ PermMark /\ UNCHANGED <<reorg_vars, edge_vars, tail, rpc, parsed, marking, ship>>
    \/ PermFinalize /\ UNCHANGED <<reorg_vars, edge_vars, tail, rpc, parsed, marking, ship>>
    \/ \E d \in TickSteps : PermTick(d) /\ UNCHANGED <<reorg_vars, edge_vars, tail, rpc, parsed, marking, ship>>

SpecPerm == InitPerm /\ [][NextPerm]_vars

\* what the daemon's block events leave alone
not_reorg == <<hub_vars, perm, edge_vars, tail, rpc, parsed, marking, ship>>

\* the daemon's block events read by the ReorgListener
NextReorg ==
    \/ ConnectTip /\ UNCHANGED not_reorg
    \/ \E k \in 1..MaxDepth : StartReorg(k) /\ UNCHANGED not_reorg
    \/ DisconnectNext /\ UNCHANGED not_reorg
    \/ ConnectReplacement /\ UNCHANGED not_reorg
    \/ \E kind \in {"BlockConnected", "BlockDisconnected"}, h \in 0..MaxBlocks :
           EnqueuingLine(kind, h) /\ UNCHANGED not_reorg

SpecReorg == Init /\ [][NextReorg]_vars

hub_store == <<redisdb, mempool_q, last, writes, marked, completed>>

chain_vars == <<chain, episode, line, reorgs, episodes>>

\* what the edge's actions leave alone
not_edge == <<hub_vars, perm, chain_vars, tail, rpc, parsed, marking, ship>>

\* process_line routing the lines of the daemon's log
NextRouter ==
    \/ \E l \in RouterLines(now) :
           CanWrite(MaxRouterLines) /\ DaemonWrite(l) /\ UNCHANGED not_edge
    \/ ReadLine /\ UNCHANGED not_edge
    \/ \E d \in EdgeTickSteps :
           EdgeTick(d) /\ UNCHANGED <<hub_store, perm, reorg_vars, edge_vars, tail,
                                     rpc, parsed, marking, ship>>

SpecRouter == Init /\ [][NextRouter]_vars

\* the edge, its cursor and its restarts
NextCursor ==
    \/ \E l \in CursorLines(now) :
           CanWrite(MaxLogLines) /\ DaemonWrite(l) /\ UNCHANGED not_edge
    \/ ReadLine /\ UNCHANGED not_edge
    \/ RunEventsTask /\ UNCHANGED not_edge
    \/ MempoolActivity /\ UNCHANGED not_edge
    \/ WriteLogfilePos /\ UNCHANGED not_edge
    \/ SyncPeerData /\ UNCHANGED not_edge
    \/ Restart /\ UNCHANGED not_edge
    \/ PersistBitcoindEvent /\ UNCHANGED not_edge

SpecCursor == Init /\ [][NextCursor]_vars

\* process_line resolving the peers of the daemon's lines
NextPeer ==
    \/ \E l \in PeerEventLines(now) :
           CanWrite(MaxPeerLines) /\ DaemonWrite(l) /\ UNCHANGED not_edge
    \/ ReadLine /\ UNCHANGED not_edge
    \/ RunEventsTask /\ UNCHANGED not_edge
    \/ SyncPeerData /\ UNCHANGED not_edge
    \/ FastStoreLost /\ UNCHANGED not_edge

SpecPeer == Init /\ [][NextPeer]_vars

not_tail == <<hub_vars, perm, reorg_vars, edge_vars, rpc, parsed, marking, ship>>

\* the follower on the daemon's log file
NextFollower ==
    \/ \E c \in Cursors : FollowerOpen(c) /\ UNCHANGED not_tail
    \/ FollowerRead /\ UNCHANGED not_tail
    \/ FollowerStat /\ UNCHANGED not_tail
    \/ \E w \in LineTexts : DaemonAppend(w) /\ UNCHANGED not_tail
    \/ Rotate /\ UNCHANGED not_tail

SpecFollower == Init /\ [][NextFollower]_vars

\* the follower on one file that grows character by character
NextChunks ==
    \/ \E c \in Cursors : FollowerOpen(c) /\ UNCHANGED not_tail
    \/ FollowerRead /\ UNCHANGED not_tail
    \/ FollowerStat /\ UNCHANGED not_tail
    \/ \E c \in Chars : DaemonAppendChar(c) /\ UNCHANGED not_tail

SpecChunks == Init /\ [][NextChunks]_vars

not_rpc == <<hub_vars, perm, reorg_vars, edge_vars, tail, parsed, marking, ship>>

\* the hub gathering RPC results while daemons go down and come back
NextRpc ==
    \/ GatherRpc /\ UNCHANGED not_rpc
    \/ \E h \in host_names : HostFlip(h) /\ UNCHANGED not_rpc

SpecRpc == Init /\ [][NextRpc]_vars

\* what the two listeners' lines leave alone
not_parse == <<hub_vars, perm, chain_vars, edge_vars, tail, rpc, marking, ship>>

\* the ConnectBlockListener on UpdateTip and timing lines
NextConnectBlock ==
    \E l \in ConnectLines(Len(parsed) + 1) :
        Len(parsed) < MaxConnectLines /\ ParseLine(l) /\ UNCHANGED not_parse

SpecConnectBlock == Init /\ [][NextConnectBlock]_vars

\* the HeaderToTipListener on header, reconstruction, tip and other lines
NextHeaderToTip ==
    \E l \in HeaderLines(Len(parsed) + 1) :
        Len(parsed) < MaxHeaderLines /\ ParseLine(l) /\ UNCHANGED not_parse

SpecHeaderToTip == Init /\ [][NextHeaderToTip]_vars

\* the ReorgListener on block lines in any order
NextBlockLines ==
    \E l \in ConnectDisconnectLines(Len(parsed) + 1) :
        Len(parsed) < MaxBlockLines /\ ParseBlockLine(l) /\ UNCHANGED not_parse

SpecBlockLines == Init /\ [][NextBlockLines]_vars

not_marking == <<perm, reorg_vars, edge_vars, tail, rpc, parsed, ship>>

\* every host's mark_seen of one txid, run by concurrent workers
NextMarking ==
    \/ \E h \in host_names : MarkSeenCall(h) /\ UNCHANGED not_marking
    \/ \E h \in host_names : MarkSeenAcquire(h) /\ UNCHANGED not_marking
    \/ \E h \in host_names : MarkSeenTimeout(h) /\ UNCHANGED not_marking
    \/ \E h \in host_names : MarkSeenWrite(h) /\ UNCHANGED not_marking
    \/ \E h \in host_names : MarkSeenRead(h) /\ UNCHANGED not_marking

SpecMarking == Init /\ [][NextMarking]_vars

not_ship == <<hub_vars, perm, reorg_vars, edge_vars, tail, rpc, parsed, marking>>

\* the mempool_q workers appending to, rotating and shipping the mempool file
NextShip ==
    \/ EnqueueActivity /\ UNCHANGED not_ship
    \/ \E w \in mempool_workers : ActivityStart(w) /\ UNCHANGED not_ship
    \/ \E w \in mempool_workers : ActivityAcquire(w) /\ UNCHANGED not_ship
    \/ \E w \in mempool_workers : ActivityAppend(w) /\ UNCHANGED not_ship
    \/ \E w \in mempool_workers : \E usec \in Micros :
           queue_mempool_to_ship(w, usec) /\ UNCHANGED not_ship
    \/ \E w \in mempool_workers : ActivityRelease(w) /\ UNCHANGED not_ship
    \/ \E w \in mempool_workers : ShipStart(w) /\ UNCHANGED not_ship
    \/ \E w \in mempool_workers : \E ok \in BOOLEAN :
           ShipUpload(w, ok) /\ UNCHANGED not_ship
    \/ \E w \in mempool_workers : ShipDone(w) /\ UNCHANGED not_ship
    \/ \E name \in {"activity", "ship"} : LockExpire(name) /\ UNCHANGED not_ship
    \/ ShipTick /\ UNCHANGED not_ship

SpecShip == Init /\ [][NextShip]_vars

-----------------------------------------------------------------------------
(* Properties of the aggregator.                                           *)

IsAccept(l) == l.op = "process_mempool_accept"

\* C1: no txid is finalized twice: once a propagation record has been
\* written for a txid, no later call writes or overwrites a record for it.
C1_NoTxidFinalizedTwice == \A t \in Txids : writes[t] <= 1

\* C2: a mark_seen for a (host, txid) pair that has been marked before
\* returns null and leaves mpa:total_txids and mpa:total_txids:<host> alone.
C2_RepeatedMarkSeenIsNoop ==
    [][(IsAccept(last') /\ <<last'.host, last'.txid>> \in marked)
        => /\ last'.ret = None
           /\ redisdb'.total = redisdb.total
           /\ redisdb'.total_host = redisdb.total_host]_vars

\* the fields of a finalized record that the permutation claim compares
SameRecord(ea, eb) ==
    \/ ea = NoEvent /\ eb = NoEvent
    \/ /\ ea # NoEvent /\ eb # NoEvent
       /\ ea[1].host_to_timestamp = eb[1].host_to_timestamp
       /\ ea[1].cohorts_complete = eb[1].cohorts_complete
       /\ ea[1].all_complete = eb[1].all_complete

\* no (host, txid) pair occurs in the multiset with two different seen_at
OneSeenAtPerHost(cs) ==
    \A i, j \in DOMAIN cs : cs[i].host = cs[j].host => cs[i].seen_at = cs[j].seen_at

\* C3 as stated: every permutation of a multiset of mark_seen calls, then
\* finalization (all within the lifetime of the raw observations), yields an
\* equal record.
C3_AnyPermutationSameRecord ==
    (perm.run = "done" /\ ~perm.expired) => SameRecord(perm.recA, perm.recB)

\* C3 amended: the same, for multisets that give each (host, txid) pair one
\* seen_at, when no raw observation expires before the finalization.
C3_PermutationSameRecord ==
    (perm.run = "done" /\ OneSeenAtPerHost(perm.calls) /\ ~perm.expired)
        => SameRecord(perm.recA, perm.recB)

C3_Witness ==
    /\ perm.run = "done"
    /\ OneSeenAtPerHost(perm.calls)
    /\ ~perm.expired
    /\ perm.order # perm.calls
    /\ perm.recB # NoEvent
    /\ \E h1, h2 \in DOMAIN perm.recB[1].host_to_timestamp :
           perm.recB[1].host_to_timestamp[h1] # perm.recB[1].host_to_timestamp[h2]

\* C7: a non-duplicate mark_seen returns CompleteAll iff, after recording the
\* observation, every known host has a raw observation for the txid;
\* otherwise CompleteCohort iff every host of the caller's cohort has one;
\* otherwise null.
C7_MarkSeenStatus ==
    [][(IsAccept(last') /\ ~Has(redisdb.ts, <<last'.txid, last'.host>>))
        => last'.ret =
             IF \A h \in host_names : Has(redisdb'.ts, <<last'.txid, h>>)
             THEN CompleteAll
             ELSE IF \A h \in host_names :
                        host_to_cohort[h] = host_to_cohort[last'.host]
                            => Has(redisdb'.ts, <<last'.txid, h>>)
             THEN CompleteCohort
             ELSE None]_vars

C7_Witness ==
    /\ IsAccept(last)
    /\ last.ret = CompleteAll
    /\ \A h \in host_names : Has(redisdb.ts, <<last.txid, h>>)

\* C8 as stated: once the hub has seen CompleteAll for a txid and has run the
\* process_completed_propagations task for it, a finalized record for the
\* txid has been written.
C8_CompleteAllIsFinalized ==
    \A t \in completed : t \in Range(mempool_q) \/ writes[t] >= 1

\* C9: a successful finalize_propagation returns a record whose
\* host_to_timestamp has exactly the hosts with a live raw observation, each
\* with the seen_at it reported; cohorts_complete is exactly the cohorts all
\* of whose hosts are among them; all_complete iff they are all known hosts.
C9_FinalizedRecord ==
    [][/\ (IsAccept(last') /\ ~Has(redisdb.ts, <<last'.txid, last'.host>>))
            => redisdb'.ts[<<last'.txid, last'.host>>].val = last'.seen_at
       /\ \A k \in (DOMAIN redisdb.ts) \cap (DOMAIN redisdb'.ts) :
            redisdb'.ts[k].val = redisdb.ts[k].val
       /\ (last'.op = "finalize_propagation" /\ last'.events # << >>)
            => LET e == last'.events[1]
                   live == {h \in host_names : Has(redisdb.ts, <<last'.txid, h>>)}
               IN  /\ e.txid = last'.txid
                   /\ e.host_to_timestamp =
                        [h \in live |-> redisdb.ts[<<last'.txid, h>>].val]
                   /\ e.cohorts_complete =
                        {co \in cohorts :
                            \A h \in host_names : host_to_cohort[h] = co => h \in live}
                   /\ e.all_complete = (live = host_names)]_vars

C9_Witness ==
    /\ last.op = "finalize_propagation"
    /\ last.events # << >>
    /\ last.events[1].cohorts_complete = {"segwit"}
    /\ ~last.events[1].all_complete
    /\ \E h1, h2 \in DOMAIN last.events[1].host_to_timestamp :
           last.events[1].host_to_timestamp[h1] # last.events[1].host_to_timestamp[h2]

\* C10 as stated: process_all_aged finalizes exactly the txids whose score in
\* mpa:txids is at most the cutoff and returns their records; younger txids
\* keep their raw observations and their mpa:txids entry.
C10_ProcessAllAgedExactlyOld ==
    [][last'.op = "process_all_aged"
        => LET old == {t \in DOMAIN redisdb.txids : redisdb.txids[t] <= last'.cutoff}
               young == (DOMAIN redisdb.txids) \ old
           IN  /\ {e.txid : e \in Range(last'.events)} = old
               /\ \A t \in old :
                    Has(redisdb'.prop_event, t) /\ ~Has(redisdb'.txids, t)
               /\ \A t \in young :
                    /\ Has(redisdb'.txids, t)
                    /\ redisdb'.txids[t] = redisdb.txids[t]
                    /\ \A h \in host_names :
                         Has(redisdb'.ts, <<t, h>>) = Has(redisdb.ts, <<t, h>>)
                    /\ t \notin {e.txid : e \in Range(last'.events)}]_vars

-----------------------------------------------------------------------------
(* Properties of the Reorg reducer.                                        *)

\* C5: every balanced reorganisation of the daemon's chain yields exactly one
\* Reorg event, returned on its last replacing block, with min_height and
\* max_height the lowest and highest replaced heights, the displaced and the
\* replacing hashes from low to high, and the last replacing block's
\* timestamp; nothing else yields one.
C5_OneReorgPerEpisode == reorgs = episodes

C5_Witness ==
    /\ Len(episodes) >= 2
    /\ \E i, j \in DOMAIN reorgs :
           /\ Len(reorgs[i].old_blockhashes) >= 2
           /\ Len(reorgs[j].old_blockhashes) = 1
    /\ line.kind = "BlockConnected"
    /\ ~line.enq
    /\ reorgs[Len(reorgs)].finished_timestamp = line.ts

-----------------------------------------------------------------------------
(* Properties of the edge.                                                 *)

\* C4: cursor round trip.  Once a flush has run after process_line accepted
\* a line L (dispatched an event for it), the LogProgress row holds
\* linehash(L); and after a restart, process_line dispatches no event for a
\* line at or before the line that was accepted and flushed before it.
C4_CursorRoundTrip ==
    /\ (edge.flushed /\ edge.accepted > 0) =>
           /\ LogProgress # << >>
           /\ LogProgress[1].loghash = linehash(logfile[edge.accepted])
    /\ (run.idx > 0 /\ run.dispatched # << >>) => run.idx > run.floor

\* C6: listener independence.  process_line presents the line to every
\* listener of LOG_LISTENERS, and the events it dispatches are the events the
\* listeners return for the line, each run on its own, in chain order.
C6_ListenerIndependence ==
    run.idx > 0 =>
        /\ run.presented = LOG_LISTENERS
        /\ run.dispatched = run.isolated

-----------------------------------------------------------------------------
(* Counters and record statistics of the aggregator.                       *)

\* the txids marked so far, and those a host marked
MarkedTxids == {p[2] : p \in marked}

MarkedBy(h) == {p[2] : p \in {q \in marked : q[1] = h}}

\* mpa:total_txids and mpa:total_txids:<host> count distinct txids
CountersExact ==
    /\ redisdb.total = Cardinality(MarkedTxids)
    /\ \A h \in host_names :
           Counter(redisdb.total_host, h) = Cardinality(MarkedBy(h))

\* C18 as stated: over mark_seen calls that never repeat a (host, txid) pair,
\* interleaved with finalizations, mpa:total_txids stays the number of
\* distinct txids marked and mpa:total_txids:<host> the number of distinct
\* txids the host marked.
C18_CountersCountDistinctTxids ==
    [][(CountersExact /\ (IsAccept(last') => <<last'.host, last'.txid>> \notin marked))
        => CountersExact']_vars

\* the finalized records at hand: those stored under mpa:prop_event:<txid>
\* and those the last call returned
FinalizedRecords ==
    {redisdb.prop_event[k].val : k \in DOMAIN redisdb.prop_event}
        \cup Range(last.events)

\* C19: every finalized record has a non-empty host_to_timestamp, and its
\* spread is the distance from the earliest to the latest timestamp in it,
\* which is never negative.
C19_SpreadIsLatestMinusEarliest ==
    \A e \in FinalizedRecords :
        /\ DOMAIN e.host_to_timestamp # {}
        /\ \E lo, hi \in DOMAIN e.host_to_timestamp :
              /\ \A h \in DOMAIN e.host_to_timestamp :
                    /\ e.host_to_timestamp[lo] <= e.host_to_timestamp[h]
                    /\ e.host_to_timestamp[h] <= e.host_to_timestamp[hi]
              /\ spread(e) = e.host_to_timestamp[hi] - e.host_to_timestamp[lo]
        /\ spread(e) >= 0

C19_Witness ==
    \E e \in FinalizedRecords :
        /\ Cardinality(DOMAIN e.host_to_timestamp) >= 2
        /\ spread(e) > 0

-----------------------------------------------------------------------------
(* Properties of the edge's dispatch to the hub.                           *)

\* the line a cursor value is the hash of
HashedLine(pos) == pos[1].loghash[2]

\* C11 as stated: when the cursor in the edge's fast store is the hash of a
\* line that is no mempool accept, the hub has accepted (persisted) the
\* event derived from that line.
C11_CursorMarkedAfterHubAccepts ==
    (logpos # << >> /\ HashedLine(logpos).kind # "Accept")
        => \E i \in DOMAIN persisted : persisted[i].linehash = logpos[1].loghash

\* the line process_line was last called with
RunLine == logfile[run.idx]

\* C14: when a listener raises on a line, process_line records one
\* ProcessLineError (listener name, line) for it, still presents the line to
\* every listener of the chain, and the follower is past the line, free to
\* read the next one.
C14_ListenerExceptionIsRecorded ==
    (run.idx > 0 /\ run.raising # << >>) =>
        /\ run.errors = [i \in 1..Len(run.raising) |->
                            ProcessLineError(run.raising[i], RunLine)]
        /\ run.presented = LOG_LISTENERS
        /\ edge.pos = run.idx

C14_Witness ==
    /\ run.idx > 1
    /\ run.raising # << >>
    /\ Len(errors) >= 1
    /\ run.presented = LOG_LISTENERS

\* C15 as stated: when an event extracted from a line fails full_clean, it
\* is not sent to the hub and the cursor is marked with the line's hash.
C15_InvalidEventDroppedCursorAdvanced ==
    (/\ run.idx > 0
     /\ run.presented = LOG_LISTENERS
     /\ \E i \in DOMAIN run.isolated :
            /\ run.isolated[i].type # "MempoolAccept"
            /\ ~full_clean(run.isolated[i], RunLine))
        => /\ \A i \in DOMAIN run.isolated :
                 ~full_clean(run.isolated[i], RunLine) =>
                     \A j \in DOMAIN run.sent : run.sent[j].type # run.isolated[i].type
           /\ run.marked

\* the events with a peer that are on their way to the hub or stored there
PeerEventsForwarded ==
    {q.event : q \in {x \in Range(events_q) : x.task = "send_event"}}
        \cup {q.event : q \in Range(server_q)}
        \cup {q.event : q \in Range(persisted)}
        \cup Range(run.sent)

\* C16: every MempoolReject and BlockDownloadTimeout forwarded to the hub
\* carries the id of the Peer row of its peer_num; and a line whose peer has
\* no entry in peer_id_map even after the synchronous re-sync has no event
\* forwarded.
C16_NoEventWithoutPeerId ==
    [][/\ \A e \in PeerEventsForwarded' :
             HasPeerId(e) => /\ Has(Peer', e.peer_num)
                             /\ e.peer = <<Peer'[e.peer_num]>>
       /\ run'.idx # run.idx =>
             \A i \in DOMAIN run'.isolated :
                 (HasPeerId(run'.isolated[i])
                    /\ ~Has(peer_id_map', run'.isolated[i].peer_num))
                     => run'.sent = << >>]_vars

C16_Witness ==
    /\ run.idx > 1
    /\ run.sent = << >>
    /\ run.isolated # << >>
    /\ HasPeerId(run.isolated[1])
    /\ \E e \in PeerEventsForwarded : HasPeerId(e) /\ e.peer # << >>

\* C17 as stated: a line naming a peer the daemon reports in getpeerinfo
\* has its event forwarded with that peer's Peer id, whether or not
\* peer_id_map had the peer and whether or not the Peer row existed.
C17_ResyncResolvesKnownPeer ==
    run.idx > 0 =>
        \A i \in DOMAIN run.isolated :
            (/\ HasPeerId(run.isolated[i])
             /\ run.isolated[i].peer_num \in getpeerinfo
             /\ full_clean(run.isolated[i], RunLine))
                => /\ Has(Peer, run.isolated[i].peer_num)
                   /\ \E j \in DOMAIN run.sent :
                         /\ HasPeerId(run.sent[j])
                         /\ run.sent[j].peer = <<Peer[run.isolated[i].peer_num]>>

-----------------------------------------------------------------------------
(* Properties of the follower.                                             *)

\* the newline-terminated lines of a file
Lines(data) == LET s == split(data) IN SubSeq(s, 1, Len(s) - 1)

IsPrefix(a, b) == Len(a) <= Len(b) /\ a = SubSeq(b, 1, Len(a))

\* the lines of the file found at the open whose hash is the cursor
Matches == {i \in DOMAIN Lines(tail.at_open) :
               <<linehash(Lines(tail.at_open)[i])>> = tail.cursor}

\* what the claim has the follower yield from the file it opened
Following ==
    LET all == Lines(tail.files[tail.curino])
    IN  IF Matches = {} THEN all
        ELSE SubSeq(all, (CHOOSE i \in Matches : \A j \in Matches : i <= j) + 1,
                    Len(all))

\* C12: with a cursor, the follower yields the lines after the first line
\* of the file whose hash is the cursor, and nothing up to and including
\* that line; when no line matches it yields every line from the start.
C12_SeekToCursor ==
    (tail.phase = "reading" /\ tail.cursor # << >> /\ tail.reopens = 0) =>
        /\ IsPrefix(tail.yielded, Following)
        /\ tail.pos = Len(tail.files[tail.curino]) => tail.yielded = Following

C12_Witness ==
    /\ tail.phase = "reading"
    /\ tail.reopens = 0
    /\ Matches # {}
    /\ 1 \notin Matches
    /\ tail.yielded # << >>
    /\ tail.yielded = Following
    /\ Len(tail.files[tail.curino]) > Len(tail.at_open)

\* the lines yielded since the follower last reopened the path
YieldedSinceReopen == SubSeq(tail.yielded, tail.since + 1, Len(tail.yielded))

\* C13: after the file at the log path was replaced, the follower, having
\* yielded the old file's lines, reopens the path and yields every line of
\* the new file from its start, in order.
C13_RotationYieldsNewFile ==
    (tail.reopens > 0 /\ tail.drained) =>
        /\ IsPrefix(YieldedSinceReopen, Lines(tail.files[tail.curino]))
        /\ tail.pos = Len(tail.files[tail.curino])
              => YieldedSinceReopen = Lines(tail.files[tail.curino])
        /\ (tail.cursor = << >> /\ tail.reopens = 1)
              => SubSeq(tail.yielded, 1, tail.since) = Lines(tail.files[tail.prev])

C13_Witness ==
    /\ tail.reopens = 1
    /\ tail.drained
    /\ tail.cursor = << >>
    /\ tail.since >= 2
    /\ Len(YieldedSinceReopen) >= 2
    /\ YieldedSinceReopen = Lines(tail.files[tail.curino])

-----------------------------------------------------------------------------
(* Bounded memory of the aggregator.                                       *)

\* C20: every txid put into mpa:txids is eventually removed from it, when
\* process_all_aged keeps being run and time advances.
C20_TxidsEventuallyRemoved ==
    \A t \in OneTxid : Has(redisdb.txids, t) ~> ~Has(redisdb.txids, t)

\* the reaper has dropped a txid that was finalized before and marked again
C20_Witness ==
    /\ last.op = "process_all_aged"
    /\ last.events = << >>
    /\ \E t \in OneTxid :
           /\ ~Has(redisdb.txids, t)
           /\ Has(redisdb.prop_event_set, EVENT_INDEX_MEMBER(t))
           /\ writes[t] >= 2

-----------------------------------------------------------------------------
(* gather_rpc                                                              *)

\* C21: gather_rpc returns a map with exactly one entry per configured host,
\* a host whose call raised mapped to RPC_ERROR_RESULT and every other host
\* to the result of its own call; no host's failure fails the batch.
C21_GatherRpcIsolatesFailures ==
    rpc.out # << >> =>
        /\ ~rpc.out[1].raised
        /\ DOMAIN rpc.out[1].results = host_names
        /\ \A h \in host_names :
               rpc.out[1].results[h] =
                   IF h \in rpc.out[1].up THEN [result_of |-> h] ELSE RPC_ERROR_RESULT

-----------------------------------------------------------------------------
(* The ConnectBlockListener                                                *)

\* the ConnectBlockDetails events returned at line i
DetailsAt(i) ==
    {e \in Range(parsed[i].ConnectBlockListener.ret) : e.type = "ConnectBlockDetails"}

IsTerminal(l) == l.kind = "Detail" /\ l.label = CONNECTBLOCK_TOTAL

\* the last line before i that is an UpdateTip / that returned a details event
LastBefore(i, S) ==
    LET c == {j \in 1..(i - 1) : j \in S}
    IN  IF c = {} THEN 0 ELSE CHOOSE j \in c : \A k \in c : k <= j

UpdateTips == {j \in DOMAIN parsed : parsed[j].line.kind = "UpdateTip"}

Flushes == {j \in DOMAIN parsed : DetailsAt(j) # {}}

\* the timings logged after line j up to line i, the latest of a label winning
TimingsBetween(j, i) ==
    LET at == {k \in (j + 1)..i : parsed[k].line.kind = "Detail"}
        labels == {parsed[k].line.label : k \in at}
    IN  [lb \in labels |->
            LET ks == {k \in at : parsed[k].line.label = lb}
            IN  parsed[CHOOSE k \in ks : \A o \in ks : o <= k].line.ts]

\* C22: a ConnectBlockDetails event is returned exactly at the terminal
\* "- Connect block:" lines; it carries the blockhash and height of the most
\* recent UpdateTip and the timings accumulated since the previous flush,
\* and after the flush the accumulator and the remembered block are empty.
C22_DetailsFlushedOnTerminalLine ==
    /\ \A i \in DOMAIN parsed :
           /\ DetailsAt(i) # {} <=> IsTerminal(parsed[i].line)
           /\ \A e \in DetailsAt(i) :
                  /\ LastBefore(i, UpdateTips) # 0
                  /\ e.blockhash = parsed[LastBefore(i, UpdateTips)].line.blockhash
                  /\ e.height = parsed[LastBefore(i, UpdateTips)].line.height
                  /\ e.details = TimingsBetween(LastBefore(i, Flushes), i)
    /\ (parsed # << >> /\ DetailsAt(Len(parsed)) # {}) =>
           listeners.ConnectBlockListener = NewConnectBlockListener

\* C28: an UpdateTip line discards the timings accumulated and not yet
\* flushed, so a ConnectBlockDetails event holds only timings logged after
\* the most recent UpdateTip.
C28_UpdateTipDiscardsUnflushedTimings ==
    /\ (parsed # << >> /\ parsed[Len(parsed)].line.kind = "UpdateTip") =>
           listeners.ConnectBlockListener.next_details = << >>
    /\ \A i \in DOMAIN parsed : \A e \in DetailsAt(i) :
           \A lb \in DOMAIN e.details : e.details[lb] > LastBefore(i, UpdateTips)

-----------------------------------------------------------------------------
(* mark_seen and finalize_propagation on the hub's fast store              *)

\* the last call was a mark_seen that added its txid to mpa:txids
NewlyInserted ==
    /\ IsAccept(last')
    /\ ~Has(redisdb.txids, last'.txid)
    /\ Has(redisdb'.txids, last'.txid)

\* C24 as stated: a mark_seen that newly inserts a txid into mpa:txids while
\* the txid has been finalized and is indexed in mpa:prop_event_set raises
\* and does not increment mpa:total_txids.
C24_MarkSeenOfFinalizedRaises ==
    [][(NewlyInserted /\ Has(redisdb.prop_event_set, EVENT_INDEX_MEMBER(last'.txid)))
        => /\ last'.ret = Raised
           /\ redisdb'.total = redisdb.total]_vars

\* C25 as stated: the score of a txid in mpa:txids is the time of the first
\* mark_seen for it and later mark_seen calls do not change it, so that the
\* time_window of the finalized record is the finalization time minus the
\* time of that first mark_seen.
C25_ScoreIsFirstAdmission ==
    [][/\ (IsAccept(last') /\ Has(redisdb.txids, last'.txid))
            => redisdb'.txids[last'.txid] = redisdb.txids[last'.txid]
       /\ (last'.op = "finalize_propagation" /\ last'.events # << >>
            /\ Has(redisdb.txids, last'.txid))
            => last'.events[1].time_window = now - redisdb.txids[last'.txid]]_vars

\* the last call was finalize_propagation(txid, assert_complete = TRUE)
FinalizeComplete == last'.op = "finalize_propagation" /\ last'.flag

Refused == last'.ret = None /\ last'.events = << >> /\ redisdb' = redisdb

\* C26 as stated: finalize_propagation(txid, assert_complete = TRUE) called
\* while not every known host has an observation for the txid returns null
\* and changes nothing.
C26_IncompleteFinalizeChangesNothing ==
    [][(FinalizeComplete /\ hosts_seen(redisdb, last'.txid) # host_names)
        => Refused]_vars

\* C26 amended: the same, when at least one known host still has an
\* observation for the txid.
C26_PartialFinalizeChangesNothing ==
    [][(FinalizeComplete /\ hosts_seen(redisdb, last'.txid) # host_names
            /\ hosts_seen(redisdb, last'.txid) # {})
        => Refused]_vars

C26_Witness ==
    /\ last.op = "finalize_propagation"
    /\ last.flag
    /\ last.events = << >>
    /\ hosts_seen(redisdb, last.txid) \notin {{}, host_names}
    /\ Has(redisdb.txids, last.txid)

-----------------------------------------------------------------------------
(* The HeaderToTipListener                                                 *)

\* the pending record before and after line i
PendingBefore(i) ==
    IF i = 1 THEN NewListeners.HeaderToTipListener
    ELSE parsed[i - 1].HeaderToTipListener.st

PendingAfter(i) == parsed[i].HeaderToTipListener.st

About(i, kind, h) == parsed[i].line.kind = kind /\ parsed[i].line.blockhash = h

\* line p is one of the three lines of block h
Related(p, h) ==
    \E kind \in {"SawHeader", "Reconstructed", "UpdateTip"} : About(p, kind, h)

\* lines i < j < k are the header, reconstruction and tip lines of block h
\* and no other line from i to k is about block h
HeaderToTipRun(i, j, k, h) ==
    /\ i < j /\ j < k
    /\ About(i, "SawHeader", h)
    /\ About(j, "Reconstructed", h)
    /\ About(k, "UpdateTip", h)
    /\ \A p \in (i + 1)..(k - 1) : p # j => ~Related(p, h)

\* one event, at line k, with the three timestamps, and nothing pending then
OneEventAtTip(i, j, k, h) ==
    /\ \A p \in i..(k - 1) :
           \A e \in Range(parsed[p].HeaderToTipListener.ret) : e.blockhash # h
    /\ Len(parsed[k].HeaderToTipListener.ret) = 1
    /\ LET e == parsed[k].HeaderToTipListener.ret[1]
       IN  /\ e.blockhash = h
           /\ e.saw_header_at = parsed[i].line.ts
           /\ e.reconstruct_block_at = <<parsed[j].line.ts>>
           /\ e.tip_at = parsed[k].line.ts
    /\ PendingAfter(k) = << >>

\* C23 as stated: the header, reconstruction and tip lines of one block, with
\* arbitrary lines that are not about that block in between, give exactly
\* one event, on the UpdateTip line, with the three lines' timestamps, and
\* leave no pending record.
C23_HeaderToTipAmongUnrelatedLines ==
    \A i, j, k \in DOMAIN parsed : \A h \in {1, 2} :
        HeaderToTipRun(i, j, k, h) => OneEventAtTip(i, j, k, h)

\* C23 amended: the same, when none of the lines in between is a "Saw new
\* header" line.
C23_HeaderToTipUninterrupted ==
    \A i, j, k \in DOMAIN parsed : \A h \in {1, 2} :
        (/\ HeaderToTipRun(i, j, k, h)
         /\ \A p \in (i + 1)..(k - 1) : parsed[p].line.kind # "SawHeader")
            => OneEventAtTip(i, j, k, h)

C23_Witness ==
    \E i, j, k \in DOMAIN parsed :
        /\ HeaderToTipRun(i, j, k, 1)
        /\ j > i + 1 /\ k > j + 1
        /\ parsed[i + 1].line.kind = "other"
        /\ About(j + 1, "UpdateTip", 2)
        /\ Len(parsed[k].HeaderToTipListener.ret) = 1

\* C29: a "Saw new header" line replaces whatever record is pending by the
\* record of its own block, at most one record is pending at any time, and a
\* reconstruction or UpdateTip line for another block than the pending one
\* (the replaced block's) returns nothing and leaves the pending record as
\* it is.
C29_NewHeaderReplacesPending ==
    /\ Len(listeners.HeaderToTipListener) <= 1
    /\ \A i \in DOMAIN parsed :
           /\ parsed[i].line.kind = "SawHeader" =>
                  /\ parsed[i].HeaderToTipListener.ret = << >>
                  /\ PendingAfter(i) =
                         <<[blockhash |-> parsed[i].line.blockhash,
                            height |-> parsed[i].line.height,
                            saw_header_at |-> parsed[i].line.ts,
                            reconstruct_block_at |-> << >>]>>
           /\ (/\ parsed[i].line.kind \in {"Reconstructed", "UpdateTip"}
               /\ PendingBefore(i) # << >>
               /\ PendingBefore(i)[1].blockhash # parsed[i].line.blockhash) =>
                  /\ parsed[i].HeaderToTipListener.ret = << >>
                  /\ PendingAfter(i) = PendingBefore(i)

C29_Witness ==
    \E i, k \in DOMAIN parsed :
        /\ i < k
        /\ About(i, "SawHeader", 2)
        /\ PendingBefore(i) # << >>
        /\ PendingBefore(i)[1].blockhash = 1
        /\ About(k, "UpdateTip", 1)
        /\ PendingBefore(k) = PendingAfter(i)
        /\ PendingAfter(k) = PendingAfter(i)

-----------------------------------------------------------------------------
(* The ReorgListener on forward progress                                   *)

\* the listener has just read a BlockConnected line that is no " Enqueuing "
\* duplicate
ReadBlockConnected == line' # line /\ line'.kind = "BlockConnected" /\ ~line'.enq

\* C30: a BlockConnected line read while the ReorgListener has no
\* outstanding disconnects returns no ReorgEvent and leaves disconnects and
\* replacements empty; as long as the daemon has disconnected no block, no
\* ReorgEvent has been returned.
C30_ForwardProgressYieldsNoReorg ==
    [][/\ (ReadBlockConnected /\ listeners.ReorgListener.disconnects = << >>)
            => /\ reorgs' = reorgs
               /\ listeners'.ReorgListener = NewReorgListener
       /\ (episodes' = << >> /\ episode' = NoEpisode) => reorgs' = << >>]_vars

C30_Witness ==
    /\ Len(reorgs) = 1
    /\ episode = NoEpisode
    /\ line.kind = "BlockConnected"
    /\ ~line.enq
    /\ line.ts > reorgs[1].finished_timestamp + 1
    /\ listeners.ReorgListener = NewReorgListener

-----------------------------------------------------------------------------
(* The cursor in the edge's fast store                                     *)

\* the places in the log of the line a cursor value is the fingerprint of
PlacesOf(pos) == {i \in DOMAIN logfile : logfile[i] = HashedLine(pos)}

\* every place of the line of pos comes before every place of the line of old
Precedes(pos, old) == \A i \in PlacesOf(pos) : \A j \in PlacesOf(old) : i < j

\* C35: the cursor in the edge's fast store never moves backward in log
\* order: once it holds the fingerprint of a line it is never set to the
\* fingerprint of a line that precedes that line in the log, however
\* process_line and the mempool_activity workers interleave.
C35_CursorNeverMovesBackward ==
    [][(logpos # << >> /\ logpos' # << >> /\ logpos'[1].loghash # logpos[1].loghash)
        => ~Precedes(logpos', logpos)]_vars

-----------------------------------------------------------------------------
(* The follower's line assembly                                            *)

\* the offset the follower started to read the open file from
StartPos ==
    IF tail.cursor = << >> THEN 0
    ELSE seek_to_cursor(tail.at_open, 0, tail.cursor[1])

\* what the follower has read of the open file, from the start position
ReadSoFar == SubSeq(tail.files[tail.curino], StartPos + 1, tail.pos)

C36_RotationLosesNothing ==
    (/\ tail.phase = "reading" /\ tail.cursor = << >> /\ tail.reopens = 1
     /\ tail.pos = Len(tail.files[tail.curino]))
        => tail.yielded = Lines(tail.files[tail.prev]) \o Lines(tail.files[tail.curino])

-----------------------------------------------------------------------------
(* The landmarks of an emitted HeaderToTipEvent                            *)

\* C39: every HeaderToTipEvent handed out by the listener has its three
\* landmarks set: the header time, the reconstruction time and the tip time.
C39_EmittedEventHasAllLandmarks ==
    \A i \in DOMAIN parsed :
        \A e \in Range(parsed[i].HeaderToTipListener.ret) :
            e.reconstruct_block_at # << >>

-----------------------------------------------------------------------------
(* all_complete and cohorts_complete of a finalized record                 *)

\* C40: in every finalized record all_complete is true if and only if
\* cohorts_complete holds every policy cohort of the aggregator's hosts.
C40_AllCompleteIffEveryCohortComplete ==
    \A e \in FinalizedRecords :
        e.all_complete <=> (e.cohorts_complete = cohorts)

C40_Witness ==
    /\ Cardinality(cohorts) = 2
    /\ \E e \in FinalizedRecords :
           /\ e.all_complete
           /\ e.cohorts_complete = cohorts
           /\ DOMAIN e.host_to_timestamp = host_names

-----------------------------------------------------------------------------
(* The locks around the rolling mempool file and its shipping              *)

\* at most one worker is uploading and renaming
OneShipper == Cardinality(InSection(ship, "ship")) <= 1

\* a ship_mempool_activity task that finds the ship lock's key does nothing
HeldShipLockIsNoOp ==
    (/\ ship'.queue.ship_mempool_activity < ship.queue.ship_mempool_activity
     /\ ship.keys.ship)
        => \E n \in {ship.noops, ship.noops + 1} :
               ship' = [ship EXCEPT !.queue.ship_mempool_activity = @ - 1,
                                    !.noops = n]

C32_ShippedOnlyAfterUpload ==
    /\ \A f \in ship.files :
           f[1] = "shipped" =>
               \E u \in ship.uploaded : shipped_name(u) = f
    /\ \A f \in ship.failed :
           \/ f \in ship.files
           \/ f \in ship.uploaded /\ shipped_name(f) \in ship.files

C32_Witness ==
    \E f \in ship.failed :
        /\ f \in ship.uploaded
        /\ f \notin ship.files
        /\ shipped_name(f) \in ship.files

\* at most one worker is between acquiring and releasing the activity lock
OneWriter == Cardinality(InSection(ship, "activity")) <= 1

-----------------------------------------------------------------------------
(* The ReorgListener on arbitrary block lines                              *)

\* C38: for any sequence of BlockConnected and BlockDisconnected lines
\* ReorgListener.process_line never raises.
C38_ReorgListenerNeverRaises ==
    \A i \in DOMAIN parsed : ~parsed[i].ReorgListener.raised

-----------------------------------------------------------------------------
(* Concurrent mark_seen calls                                              *)

\* every host's call has returned a status
AllMarked ==
    \A h \in host_names :
        marking.calls[h].pc = "done" /\ ~marking.calls[h].raised

\* C37: when every host marks the txid once, under every interleaving of
\* the calls exactly one of them returns CompleteAll, the one that recorded
\* the last missing host.
C37_ExactlyOneCompleteAll ==
    /\ \A h \in host_names :
           marking.calls[h].ret = CompleteAll =>
               /\ Len(marking.order) = Cardinality(host_names)
               /\ marking.order[Len(marking.order)] = h
    /\ AllMarked => \E h \in host_names : marking.calls[h].ret = CompleteAll

C37_Witness ==
    /\ AllMarked
    /\ marking.lock = << >>
    /\ marking.order = <<"c", "a", "b">>
    /\ marking.calls["b"].ret = CompleteAll
    /\ marking.calls["a"].ret = None
    /\ marking.calls["c"].ret = CompleteCohort

====
